---- MODULE Spec2Model ----
(***************************************************************************)
(* Reconciliation engine of BotLibertyBD: PostgresConnector.sync_imeis     *)
(* (three-way merge of an extracted IMEI batch into the persisted table)   *)
(* and EmailConnector.analizar_cambios_bd, as driven by                    *)
(* EmailConnector.monitor_and_notify.                                      *)
(*                                                                         *)
(* Every statement that sync_imeis sends through execute_query is one      *)
(* step: the connection is in autocommit mode, so each statement is        *)
(* applied to the store on its own.                                        *)
(***************************************************************************)
EXTENDS Naturals, Sequences, FiniteSets, TLC

\* ------------------------------------------------------------ bounds
\* Longest extracted batch (records read from one spreadsheet).
MaxBatch == 2
\* Number of monitor cycles (analysis + synchronisation) in one behaviour.
MaxRuns == 2
\* Longest batch of a run that shares the table with another run.
MaxBatchConc == 1
\* Longest list of tuples passed to limpiar_duplicados.
MaxRegistros == 3
\* Calls of parent.after (monitoring jobs scheduled) in one behaviour.
MaxJobs == 4
\* Most titles in search_params["titles"].
MaxTitulos == 2
\* Most files in one call of process_excel_files.
MaxArchivos == 3
\* Most profiles in the profiles file.
MaxPerfiles == 2
\* Days the scheduler clock passes through, and minutes of a day it stops at.
MaxDias == 2
MaxMinutos == 2
\* Most processing threads alive at once.
MaxHilos == 2
\* Most automatic starts of one profile counted in a day.
MaxAuto == 2
\* Most matching emails in one call of monitor_and_notify.
MaxCorreos == 2

\* ------------------------------------------------------------ values
IMEIS == {"A", "B"}

\* A date is None or a datetime <<day, time of day>>.
None == <<>>
D1a == <<1, 0>>
D1b == <<1, 1>>
D2 == <<2, 0>>

\* Dates the extraction delivers, and dates of the rows found in the table
\* before the first cycle. Together they give every comparison the routines
\* make: None with None (after a run wrote None), None with a datetime either
\* way, the same day at another time of day, and another day.
FechasExcel == {None, D1b}
FechasBD == {D1a, D2}

\* datetime.date(): the calendar day, time of day stripped.
FechaDate(f) == f[1]

\* Provenance tags: the one sync_imeis writes, and the one of rows that were
\* in the table before.
DetalleSync == "traiding_trustonic"
DetallePrevio == "previo"

\* Columns of the table ensure_imei_table_exists creates.
ColumnasTabla ==
    {"id", "imei_serie", "fecha_cliente", "creado", "actualizado", "activo", "detalle"}

\* One extracted record, as extract_all_imeis_from_excel appends it: the
\* identifier is a non-blank trimmed string, the date a datetime or None.
Registros == [imei : IMEIS, fecha_cliente : FechasExcel]

\* Batches monitor_and_notify hands to the analysis and to sync_imeis
\* (total_imeis > 0; the extraction does not remove repeated identifiers).
Lotes == UNION {[1..n -> Registros] : n \in 1..MaxBatch}

\* Tables found before the first cycle: at most one row per identifier
\* (imei_serie is UNIQUE).
FilasPrevias(x) ==
    {[imei_serie |-> x, fecha_cliente |-> f, creado |-> 0, actualizado |-> 0,
      activo |-> a, detalle |-> DetallePrevio] : f \in FechasBD, a \in BOOLEAN}

TablasIniciales ==
    {t \in SUBSET (UNION {FilasPrevias(x) : x \in IMEIS}) :
        \A r1 \in t, r2 \in t : r1.imei_serie = r2.imei_serie => r1 = r2}

VARIABLES
    esquemaExiste,   \* the schema exists in the database
    tablaExiste,     \* the table exists in the database
    tabla,           \* rows of the table
    reloj,           \* the time of the running cycle: CURRENT_TIMESTAMP of its writes
    pc,              \* position of the cycle inside monitor_and_notify / sync_imeis
    excel_data,      \* extraction_result['data'] of the cycle
    analisis,        \* analisis_datos: what analizar_cambios_bd returned
    result,          \* result of sync_imeis
    tabla_asegurada, \* sync_imeis: what ensure_imei_table_exists returned
    db_imeis_result, \* sync_imeis: what execute_query answered to the SELECT
    db_imeis_dict,   \* sync_imeis: the lookup loaded from the table
    i,               \* sync_imeis: index into excel_data of the running loop
    pendientes,      \* sync_imeis: obsolete identifiers still to iterate
    sentencias,      \* INSERT/UPDATE statements sent to the store by this run
    fallidas,        \* of those, the ones execute_query answered None
    tablaInicio,     \* rows of the table when this run was entered
    repetida,        \* this run repeats the batch of the run just before it,
                     \* which ended with success and no error
    corridas,        \* cycles started so far
    procesos,        \* concurrent runs of sync_imeis: the locals of each
    registros,       \* limpiar_duplicados: the list of tuples passed in
    limpieza,        \* limpiar_duplicados: what it returned
    valor,           \* a cell of the date column, as read from the sheet
    fecha_trustonic, \* what parsear_fecha returned for it
    fecha_extraida,  \* fecha_cliente of extract_all_imeis_from_excel for it
    monitoring_active,     \* TabPrincipal: monitoring is switched on
    stop_monitoring_event, \* TabPrincipal: the threading.Event is set
    monitoring_job,        \* TabPrincipal: <<id>> of the last `after` job, or None
    monitoring_thread,     \* TabPrincipal: the last Thread: "None", "vivo", "muerto"
    titulos_pendientes,    \* that thread: titles its loop has still to visit
    temporizadores,        \* Tk: ids of the `after` jobs still pending
    hilos_sueltos,         \* threads started while the thread before was
                           \* alive: they run on, no field refers to them
    jobs_creados,          \* calls of parent.after so far
    email_config,          \* TabPrincipal: email_config is not empty
    search_params,         \* TabPrincipal: len(search_params["titles"])
    notify_users,          \* TabPrincipal: notify_users is not empty
    excel_files,           \* process_excel_files: the files passed in
    archivo_i,             \* process_excel_files: index of its loop
    processed_files,       \* ExcelAutomationProcessor.processed_files
    failed_files,          \* ExcelAutomationProcessor.failed_files
    total_records_processed, \* ExcelAutomationProcessor.total_records_processed
    pc_archivos,           \* position inside process_excel_files
    resumen,               \* what process_excel_files returned
    profiles,              \* ProfileManager.profiles
    is_processing,         \* ProfileManager.is_processing
    hilos_proceso,         \* threads running _process_profile_thread
    confirmacion,          \* execute_profile_manually: the profile its
                           \* confirmation dialog is open for, or None
    now,                   \* datetime.datetime.now(): day and minute
    auto_hoy,              \* per profile: automatic thread starts today
    observado,             \* per profile: a timer check today found it
                           \* enabled at its scheduled minute
    desatendidos,          \* profiles observed on the day before that no
                           \* automatic thread was started for
    correos,               \* monitor_and_notify: the matching emails found
    postgres_connector,    \* monitor_and_notify: a connector was passed
    correo_i,              \* monitor_and_notify: index of its loop
    analisis_datos,        \* monitor_and_notify: the local of that name
    pdf_file_path,         \* monitor_and_notify: the local of that name
    text_file_path,        \* monitor_and_notify: the local of that name
    leidos,                \* emails flagged \Seen
    enviados,              \* notifications handed to the SMTP server
    pc_notif               \* position inside monitor_and_notify

\* The database, as every connection sees it.
varsStore == <<esquemaExiste, tablaExiste, tabla, reloj>>

\* One cycle of monitor_and_notify at a time: its locals and history.
varsSync == <<pc, excel_data, analisis, result, tabla_asegurada,
              db_imeis_result, db_imeis_dict, i, pendientes, sentencias,
              fallidas, tablaInicio, repetida, corridas>>

\* Two runs of sync_imeis on connections of their own.
varsConc == <<procesos>>

\* limpiar_duplicados: argument and return value.
varsDup == <<registros, limpieza>>

\* The date parsers: the cell read and what each parser made of it.
varsFecha == <<valor, fecha_trustonic, fecha_extraida>>

\* The pure functions, which no run of sync_imeis touches.
varsPuras == <<varsDup, varsFecha>>

\* TabPrincipal: the monitoring switch, its timer and its thread.
varsMonitor == <<monitoring_active, stop_monitoring_event, monitoring_job,
                 monitoring_thread, titulos_pendientes, temporizadores,
                 hilos_sueltos, jobs_creados>>

\* TabPrincipal: what the configuration dialogs set.
varsConfig == <<email_config, search_params, notify_users>>

\* ExcelAutomationProcessor.process_excel_files: arguments, fields, result.
varsArchivos == <<excel_files, archivo_i, processed_files, failed_files,
                  total_records_processed, pc_archivos, resumen>>

\* ProfileManager: the profiles, the run in progress, the scheduler clock.
varsPerfiles == <<profiles, is_processing, hilos_proceso, confirmacion, now,
                  auto_hoy, observado, desatendidos>>

\* EmailConnector.monitor_and_notify: the emails, its locals, what it sent.
varsNotif == <<correos, postgres_connector, correo_i, analisis_datos,
               pdf_file_path, text_file_path, leidos, enviados, pc_notif>>

\* The desktop application around the connectors.
varsUI == <<varsMonitor, varsConfig, varsArchivos, varsPerfiles, varsNotif>>

\* Everything but the notification loop of monitor_and_notify.
sinNotif == <<varsStore, varsSync, varsConc, varsDup, varsFecha,
              varsMonitor, varsConfig, varsArchivos, varsPerfiles>>

\* Everything but the fields of TabPrincipal.
sinTab == <<varsStore, varsSync, varsConc, varsDup, varsFecha, varsArchivos,
            varsPerfiles, varsNotif>>

\* Everything but process_excel_files.
sinArchivos == <<varsStore, varsSync, varsConc, varsDup, varsFecha,
                 varsMonitor, varsConfig, varsPerfiles, varsNotif>>

\* Everything but the fields of ProfileManager.
sinPerfiles == <<varsStore, varsSync, varsConc, varsDup, varsFecha,
                 varsMonitor, varsConfig, varsArchivos, varsNotif>>

\* What the cycle of monitor_and_notify does not touch.
varsAjenas == <<varsConc, varsPuras, varsUI>>

vars == <<varsStore, varsSync, varsConc, varsPuras, varsUI>>

\* ------------------------------------------------------------ helpers
ImeisTabla(t) == {r.imei_serie : r \in t}

Fila(t, x) == CHOOSE r \in t : r.imei_serie = x

\* ------------------------------------------------------------ the store
\* What execute_query returns: None on any error, the fetched rows (a list)
\* for a SELECT, True for a modification.
RespNone == [tipo |-> "None"]
RespList(filas) == [tipo |-> "list", filas |-> filas]

\* execute_query of a SELECT over `columnas` of the table: the statement
\* raises (and None is returned) when the connection fails, the table is
\* missing or a column named is not one of the table's.
ExecuteQuerySelect(columnas, falla) ==
    IF falla \/ ~tablaExiste \/ ~(columnas \subseteq ColumnasTabla)
    THEN RespNone
    ELSE RespList(tabla)

\* The mutant of InsertOk: imei_serie is not UNIQUE.
InsertOkSinUnique(t, imei, falla) == ~falla /\ tablaExiste

\* INSERT INTO ... VALUES (imei, fecha, CURRENT_TIMESTAMP, CURRENT_TIMESTAMP,
\* TRUE, detalle): rejected when the connection fails, the table is missing
\* or imei_serie is taken.
InsertOk(t, imei, falla) == ~falla /\ tablaExiste /\ imei \notin ImeisTabla(t)

\* An UPDATE answers True unless the connection fails or the table is missing
\* (also when its WHERE matches no row).
UpdateOk(falla) == ~falla /\ tablaExiste

TablaInsert(t, imei, fecha, ahora) ==
    t \cup {[imei_serie |-> imei, fecha_cliente |-> fecha, creado |-> ahora,
             actualizado |-> ahora, activo |-> TRUE, detalle |-> DetalleSync]}

\* UPDATE ... SET fecha_cliente, actualizado = CURRENT_TIMESTAMP,
\* activo = TRUE, detalle WHERE imei_serie = imei.
TablaUpdate(t, imei, fecha, ahora) ==
    {IF r.imei_serie = imei
     THEN [r EXCEPT !.fecha_cliente = fecha, !.actualizado = ahora,
                    !.activo = TRUE, !.detalle = DetalleSync]
     ELSE r : r \in t}

\* The mutant of TablaDesactivar: the obsolete row is deleted.
TablaDesactivarBorra(t, imei, ahora) == {r \in t : r.imei_serie # imei}

\* The mutant of TablaDesactivar: the statement changes no row.
TablaDesactivarNada(t, imei, ahora) == t

\* The mutant of TablaDesactivar: the statement also clears the date.
TablaDesactivarSinFecha(t, imei, ahora) ==
    {IF r.imei_serie = imei
     THEN [r EXCEPT !.activo = FALSE, !.actualizado = ahora, !.fecha_cliente = None]
     ELSE r : r \in t}

\* UPDATE ... SET activo = FALSE, actualizado = CURRENT_TIMESTAMP
\* WHERE imei_serie = imei.
TablaDesactivar(t, imei, ahora) ==
    {IF r.imei_serie = imei
     THEN [r EXCEPT !.activo = FALSE, !.actualizado = ahora]
     ELSE r : r \in t}

\* The mutant of Rollback: the statements of the run form one transaction,
\* which the rollback undoes.
RollbackTransaccion(t, inicio) == inicio

\* connection.rollback() in the except clause of execute_query, on a
\* connection in autocommit mode: every earlier statement is committed
\* already, so nothing is undone. `inicio` is the table when the run began.
Rollback(t, inicio) == t

\* ensure_imei_table_exists, with f1..f4 saying which of its four statements
\* (schema_exists, CREATE SCHEMA, table_exists, CREATE TABLE) fails on the
\* connection. Gives what it returns and what exists afterwards.
EnsureImeiTableExists(f1, f2, f3, f4) ==
    LET hayEsquema == ~f1 /\ esquemaExiste
        creaEsquema == ~f2 /\ ~esquemaExiste
    IN  IF ~hayEsquema /\ ~creaEsquema
        THEN [ok |-> FALSE, esquema |-> esquemaExiste, tab |-> tablaExiste]
        ELSE LET hayTabla == ~f3 /\ tablaExiste
                 creaTabla == ~f4 /\ ~tablaExiste
             IN  IF hayTabla
                 THEN [ok |-> TRUE, esquema |-> TRUE, tab |-> TRUE]
                 ELSE [ok |-> creaTabla, esquema |-> TRUE,
                       tab |-> tablaExiste \/ creaTabla]

\* ------------------------------------------------------------ analysis
\* The lookup both routines build from fetched rows:
\* identifier -> {fecha_cliente, activo}.
DictDeFilas(filas) ==
    [x \in ImeisTabla(filas) |->
        [fecha_cliente |-> Fila(filas, x).fecha_cliente,
         activo |-> Fila(filas, x).activo]]

\* analizar_cambios_bd: fechas_diferentes.
FechasDiferentes(fecha_cliente, existing_fecha) ==
    IF fecha_cliente # None /\ existing_fecha # None
    THEN FechaDate(fecha_cliente) # FechaDate(existing_fecha)
    ELSE fecha_cliente # existing_fecha

\* analizar_cambios_bd: the classification loop over excel_data against
\* existing_dict; the three lists in the order the loop appends to them.
ClasificarAnalisis(datos, existing_dict) ==
    LET EsNuevo(item) == item.imei \notin DOMAIN existing_dict
        Cambia(item) ==
            /\ item.imei \in DOMAIN existing_dict
            /\ \/ FechasDiferentes(item.fecha_cliente,
                                   existing_dict[item.imei].fecha_cliente)
               \/ ~existing_dict[item.imei].activo
        Igual(item) == ~EsNuevo(item) /\ ~Cambia(item)
        viejos == SelectSeq(datos, Cambia)
    IN  [nuevos |-> SelectSeq(datos, EsNuevo),
         actualizados |->
            [k \in 1..Len(viejos) |->
                [imei |-> viejos[k].imei,
                 fecha_cliente |-> viejos[k].fecha_cliente,
                 fecha_anterior |-> existing_dict[viejos[k].imei].fecha_cliente,
                 estaba_inactivo |-> ~existing_dict[viejos[k].imei].activo]],
         sin_cambios |-> SelectSeq(datos, Igual)]

ResultadoAnalisis(ok, total, clasif, error) ==
    [success |-> ok, nuevos |-> clasif.nuevos,
     actualizados |-> clasif.actualizados, sin_cambios |-> clasif.sin_cambios,
     total |-> total, error |-> error]

SinClasificar == [nuevos |-> <<>>, actualizados |-> <<>>, sin_cambios |-> <<>>]

\* analizar_cambios_bd(excel_data, postgres_connector, schema, table), given
\* what postgres_connector.execute_query answered to its SELECT. The routine
\* reads the answer as a dict {'success', 'data'}: on any other object the
\* .get call raises and the except clause returns the failure.
AnalizarCambiosBD(datos, resp) ==
    IF datos = <<>>
    THEN ResultadoAnalisis(FALSE, 0, SinClasificar, "no_disponible")
    ELSE IF resp.tipo = "None"
    THEN ResultadoAnalisis(FALSE, Len(datos), SinClasificar, "conexion_perdida")
    ELSE IF resp.tipo # "dict"
    THEN ResultadoAnalisis(FALSE, Len(datos), SinClasificar, "excepcion")
    ELSE IF ~resp.success
    THEN ResultadoAnalisis(FALSE, Len(datos), SinClasificar, "consulta_bd")
    ELSE ResultadoAnalisis(TRUE, Len(datos),
                           ClasificarAnalisis(datos, DictDeFilas(resp.data)),
                           "None")

\* The SELECT of analizar_cambios_bd names the columns imei, fecha_cliente
\* and activo.
ColumnasAnalisis == {"imei", "fecha_cliente", "activo"}

\* The SELECT of sync_imeis names imei_serie, fecha_cliente and activo.
ColumnasSync == {"imei_serie", "fecha_cliente", "activo"}

\* ------------------------------------------------------------ sync_imeis
\* The mutant of ResultInicial: total is not the length of the batch.
ResultInicialSinTotal(datos) ==
    [success |-> FALSE, nuevos |-> 0, actualizados |-> 0, desactivados |-> 0,
     total |-> 0, nuevos_list |-> <<>>, actualizados_list |-> <<>>,
     desactivados_list |-> <<>>, sin_cambios |-> <<>>, errors |-> <<>>]

\* result, as sync_imeis initialises it.
ResultInicial(datos) ==
    [success |-> FALSE, nuevos |-> 0, actualizados |-> 0, desactivados |-> 0,
     total |-> Len(datos), nuevos_list |-> <<>>, actualizados_list |-> <<>>,
     desactivados_list |-> <<>>, sin_cambios |-> <<>>, errors |-> <<>>]

\* An entry of result['errors']: which write failed, for which identifier
\* ("tabla": the table could not be ensured).
Error(op, imei) == [op |-> op, imei |-> imei]

\* The mutant of AnotarError: a failed write leaves no entry.
AnotarErrorOmitido(res, op, imei) == res

\* result['errors'].append(...) after a write execute_query answered None.
AnotarError(res, op, imei) ==
    [res EXCEPT !.errors = Append(@, Error(op, imei))]

ExcelImeis(datos) == {datos[k].imei : k \in 1..Len(datos)}

\* db_imeis_dict: filled only when the SELECT answered a non-empty list.
CargarDict(resp) ==
    IF resp.tipo = "list" /\ resp.filas # {} THEN DictDeFilas(resp.filas) ELSE <<>>

\* The mutant of FechaCambio: datetimes compared whole, time of day included.
FechaCambioConHora(fecha_cliente, fecha_bd) == fecha_cliente # fecha_bd

\* The mutant of FechaCambio: a missing date always counts as a change.
FechaCambioNulo(fecha_cliente, fecha_bd) ==
    IF fecha_cliente # None /\ fecha_bd # None
    THEN FechaDate(fecha_cliente) # FechaDate(fecha_bd)
    ELSE TRUE

\* sync_imeis: fecha_cambio.
FechaCambio(fecha_cliente, fecha_bd) ==
    IF fecha_cliente # None /\ fecha_bd # None
    THEN FechaDate(fecha_cliente) # FechaDate(fecha_bd)
    ELSE fecha_cliente # fecha_bd

\* sync_imeis: `if fecha_cambio or not activo_bd`.
RequiereUpdate(item, dict) ==
    \/ FechaCambio(item.fecha_cliente, dict[item.imei].fecha_cliente)
    \/ ~dict[item.imei].activo

\* The mutant of PcTrasEnsure: the run goes on after the table check failed.
PcTrasEnsureSigue(ok) == "load"

\* Where sync_imeis goes after ensure_imei_table_exists: on to the SELECT, or
\* `return result`.
PcTrasEnsure(ok) == IF ok THEN "load" ELSE "done"

\* The mutant of PcTrasFallo: a failed write ends the run.
PcTrasFalloAborta(fase) == "done"

\* Where sync_imeis goes after a write that execute_query answered None:
\* the error is appended and the loop goes on.
PcTrasFallo(fase) == fase

\* monitor_and_notify, one matching email with a non-empty extraction:
\* analizar_cambios_bd, then the entry of sync_imeis (result initialised).
\* The monitoring thread calls monitor_and_notify only after it found
\* stop_monitoring_event not set.
\* The SELECT of the analysis is sent on a working connection; a failing one
\* gives the same None. Time has passed since the cycle before.
MonitorAnalizar ==
    /\ ~stop_monitoring_event
    /\ pc \in {"idle", "done"}
    /\ corridas < MaxRuns
    /\ \E datos \in Lotes :
        /\ excel_data' = datos
        /\ analisis' = AnalizarCambiosBD(datos, ExecuteQuerySelect(ColumnasAnalisis, FALSE))
        /\ result' = ResultInicial(datos)
        /\ repetida' = (/\ pc = "done"
                        /\ result.success
                        /\ result.errors = <<>>
                        /\ datos = excel_data)
    /\ pc' = "ensure"
    /\ corridas' = corridas + 1
    /\ tablaInicio' = tabla
    /\ sentencias' = 0
    /\ fallidas' = 0
    /\ tabla_asegurada' = "pendiente"
    /\ db_imeis_result' = RespNone
    /\ db_imeis_dict' = <<>>
    /\ i' = 1
    /\ pendientes' = {}
    /\ reloj' = reloj + 1
    /\ UNCHANGED <<esquemaExiste, tablaExiste, tabla>>
    /\ UNCHANGED varsAjenas

\* sync_imeis: ensure_imei_table_exists and the early return.
AsegurarTabla ==
    /\ pc = "ensure"
    /\ \E f1 \in BOOLEAN, f2 \in BOOLEAN, f3 \in BOOLEAN, f4 \in BOOLEAN :
        LET e == EnsureImeiTableExists(f1, f2, f3, f4)
        IN  /\ esquemaExiste' = e.esquema
            /\ tablaExiste' = e.tab
            /\ tabla_asegurada' = IF e.ok THEN "si" ELSE "no"
            /\ pc' = PcTrasEnsure(e.ok)
            /\ result' = IF e.ok THEN result
                         ELSE [result EXCEPT !.errors = Append(@, Error("tabla", ""))]
    /\ UNCHANGED <<tabla, reloj, excel_data, analisis, db_imeis_result,
                   db_imeis_dict, i, pendientes, sentencias, fallidas,
                   tablaInicio, repetida, corridas>>
    /\ UNCHANGED varsAjenas

\* sync_imeis: the SELECT of all rows and the lookup built from it.
CargarBD ==
    /\ pc = "load"
    /\ \E falla \in BOOLEAN :
        /\ db_imeis_result' = ExecuteQuerySelect(ColumnasSync, falla)
        /\ db_imeis_dict' = CargarDict(db_imeis_result')
    /\ pc' = "nuevos"
    /\ i' = 1
    /\ UNCHANGED <<esquemaExiste, tablaExiste, tabla, reloj, excel_data,
                   analisis, result, tabla_asegurada, pendientes, sentencias, fallidas,
                   tablaInicio, repetida, corridas>>
    /\ UNCHANGED varsAjenas

\* sync_imeis, case 1: one iteration of the loop over excel_data that
\* inserts the identifiers absent from the lookup.
PasoNuevos ==
    /\ pc = "nuevos"
    /\ i <= Len(excel_data)
    /\ LET item == excel_data[i]
           nuevos_imeis == ExcelImeis(excel_data) \ DOMAIN db_imeis_dict
       IN  IF item.imei \in nuevos_imeis
           THEN \E falla \in BOOLEAN :
                  LET ok == InsertOk(tabla, item.imei, falla)
                  IN  /\ tabla' = IF ok
                                  THEN TablaInsert(tabla, item.imei, item.fecha_cliente, reloj)
                                  ELSE Rollback(tabla, tablaInicio)
                      /\ reloj' = reloj
                      /\ result' =
                            IF ok
                            THEN [result EXCEPT
                                    !.nuevos = @ + 1,
                                    !.nuevos_list = Append(@,
                                        [imei |-> item.imei,
                                         fecha_cliente |-> item.fecha_cliente])]
                            ELSE AnotarError(result, "insertar", item.imei)
                      /\ sentencias' = sentencias + 1
                      /\ fallidas' = IF ok THEN fallidas ELSE fallidas + 1
                      /\ pc' = IF ok THEN pc ELSE PcTrasFallo(pc)
           ELSE /\ UNCHANGED <<tabla, reloj, result, sentencias, fallidas, pc>>
    /\ i' = i + 1
    /\ UNCHANGED <<esquemaExiste, tablaExiste, excel_data, analisis,
                   tabla_asegurada, db_imeis_result, db_imeis_dict, pendientes,
                   tablaInicio, repetida, corridas>>
    /\ UNCHANGED varsAjenas

\* sync_imeis: the first loop is over, the second starts.
FinNuevos ==
    /\ pc = "nuevos"
    /\ i > Len(excel_data)
    /\ pc' = "existentes"
    /\ i' = 1
    /\ UNCHANGED <<esquemaExiste, tablaExiste, tabla, reloj, excel_data,
                   analisis, result, tabla_asegurada, db_imeis_result,
                   db_imeis_dict, pendientes, sentencias, fallidas,
                   tablaInicio, repetida, corridas>>
    /\ UNCHANGED varsAjenas

\* sync_imeis, case 2: one iteration of the loop over excel_data that
\* updates the identifiers found in the lookup, or lists them unchanged.
PasoExistentes ==
    /\ pc = "existentes"
    /\ i <= Len(excel_data)
    /\ LET item == excel_data[i]
           existentes_imeis == ExcelImeis(excel_data) \cap DOMAIN db_imeis_dict
       IN  IF item.imei \in existentes_imeis
           THEN IF RequiereUpdate(item, db_imeis_dict)
                THEN \E falla \in BOOLEAN :
                       LET ok == UpdateOk(falla)
                       IN  /\ tabla' = IF ok
                                       THEN TablaUpdate(tabla, item.imei, item.fecha_cliente, reloj)
                                       ELSE Rollback(tabla, tablaInicio)
                           /\ reloj' = reloj
                           /\ result' =
                                IF ok
                                THEN [result EXCEPT
                                        !.actualizados = @ + 1,
                                        !.actualizados_list = Append(@,
                                            [imei |-> item.imei,
                                             fecha_cliente |-> item.fecha_cliente,
                                             fecha_anterior |-> db_imeis_dict[item.imei].fecha_cliente,
                                             estaba_inactivo |-> ~db_imeis_dict[item.imei].activo])]
                                ELSE AnotarError(result, "actualizar", item.imei)
                           /\ sentencias' = sentencias + 1
                           /\ fallidas' = IF ok THEN fallidas ELSE fallidas + 1
                           /\ pc' = IF ok THEN pc ELSE PcTrasFallo(pc)
                ELSE /\ result' = [result EXCEPT
                                    !.sin_cambios = Append(@,
                                        [imei |-> item.imei,
                                         fecha_cliente |-> item.fecha_cliente])]
                     /\ UNCHANGED <<tabla, reloj, sentencias, fallidas, pc>>
           ELSE /\ UNCHANGED <<tabla, reloj, result, sentencias, fallidas, pc>>
    /\ i' = i + 1
    /\ UNCHANGED <<esquemaExiste, tablaExiste, excel_data, analisis,
                   tabla_asegurada, db_imeis_result, db_imeis_dict, pendientes,
                   tablaInicio, repetida, corridas>>
    /\ UNCHANGED varsAjenas

\* sync_imeis: the second loop is over; obsoletos_imeis is computed.
FinExistentes ==
    /\ pc = "existentes"
    /\ i > Len(excel_data)
    /\ pc' = "obsoletos"
    /\ pendientes' = DOMAIN db_imeis_dict \ ExcelImeis(excel_data)
    /\ UNCHANGED <<esquemaExiste, tablaExiste, tabla, reloj, excel_data,
                   analisis, result, tabla_asegurada, db_imeis_result,
                   db_imeis_dict, i, sentencias, fallidas, tablaInicio,
                   repetida, corridas>>
    /\ UNCHANGED varsAjenas

\* sync_imeis, case 3: one iteration of the loop over the set
\* obsoletos_imeis (a set: any order), marking the identifier inactive.
PasoObsoletos ==
    /\ pc = "obsoletos"
    /\ \E imei \in pendientes, falla \in BOOLEAN :
        LET ok == UpdateOk(falla)
        IN  /\ tabla' = IF ok THEN TablaDesactivar(tabla, imei, reloj)
                      ELSE Rollback(tabla, tablaInicio)
            /\ reloj' = reloj
            /\ result' =
                 IF ok
                 THEN [result EXCEPT
                         !.desactivados = @ + 1,
                         !.desactivados_list = Append(@,
                             [imei |-> imei,
                              fecha_cliente |-> db_imeis_dict[imei].fecha_cliente])]
                 ELSE AnotarError(result, "desactivar", imei)
            /\ sentencias' = sentencias + 1
            /\ fallidas' = IF ok THEN fallidas ELSE fallidas + 1
            /\ pc' = IF ok THEN pc ELSE PcTrasFallo(pc)
            /\ pendientes' = pendientes \ {imei}
    /\ UNCHANGED <<esquemaExiste, tablaExiste, excel_data, analisis,
                   tabla_asegurada, db_imeis_result, db_imeis_dict, i,
                   tablaInicio, repetida, corridas>>
    /\ UNCHANGED varsAjenas

\* sync_imeis: the third loop is over; success is set and result returned.
Retornar ==
    /\ pc = "obsoletos"
    /\ pendientes = {}
    /\ result' = [result EXCEPT !.success = TRUE]
    /\ pc' = "done"
    /\ UNCHANGED <<esquemaExiste, tablaExiste, tabla, reloj, excel_data,
                   analisis, tabla_asegurada, db_imeis_result, db_imeis_dict,
                   i, pendientes, sentencias, fallidas, tablaInicio, repetida,
                   corridas>>
    /\ UNCHANGED varsAjenas

\* ------------------------------------------------------------ concurrent runs
\* Two instances of the program synchronise the same schema and table, each
\* through a connection of its own (autocommit: a statement is applied when
\* it is sent; sync_imeis takes no lock and opens no transaction). Their
\* connections work: a statement fails only when the database rejects it.
Procs == {1, 2}

\* Batches of the concurrent runs.
LotesConc == UNION {[1..n -> Registros] : n \in 1..MaxBatchConc}

\* The locals of a run that has not started.
ProcesoInicial ==
    [pc |-> "idle", excel_data |-> <<>>, result |-> ResultInicial(<<>>),
     cargada |-> FALSE, db_imeis_dict |-> <<>>, i |-> 1, pendientes |-> {},
     tras |-> {}]

InitConc == procesos = [p \in Procs |-> ProcesoInicial]

\* The phase after iteration k of a loop over `datos`: the same loop, or the
\* one that follows it.
FaseTras(fase, siguiente, k, datos) == IF k < Len(datos) THEN fase ELSE siguiente

\* Run p enters sync_imeis with a batch: result is initialised and the table
\* ensured.
ConcEntrar(p) ==
    /\ procesos[p].pc = "idle"
    /\ \E datos \in LotesConc :
        LET e == EnsureImeiTableExists(FALSE, FALSE, FALSE, FALSE)
        IN  /\ esquemaExiste' = e.esquema
            /\ tablaExiste' = e.tab
            /\ procesos' = [procesos EXCEPT ![p] =
                    [@ EXCEPT !.pc = PcTrasEnsure(e.ok),
                              !.excel_data = datos,
                              !.result =
                                 IF e.ok THEN ResultInicial(datos)
                                 ELSE [ResultInicial(datos) EXCEPT
                                         !.errors = <<Error("tabla", "")>>]]]
    /\ reloj' = reloj + 1
    /\ UNCHANGED <<tabla, varsSync, varsPuras, varsUI>>

\* Run p sends the SELECT of all rows and builds its lookup. `tras` keeps
\* which runs had returned by then.
ConcCargar(p) ==
    /\ procesos[p].pc = "load"
    /\ LET resp == ExecuteQuerySelect(ColumnasSync, FALSE)
       IN  procesos' = [procesos EXCEPT ![p] =
                [@ EXCEPT !.pc = "nuevos",
                          !.cargada = (resp.tipo = "list"),
                          !.db_imeis_dict = CargarDict(resp),
                          !.i = 1,
                          !.tras = {q \in Procs : procesos[q].pc = "done"}]]
    /\ UNCHANGED <<varsStore, varsSync, varsPuras, varsUI>>

\* Run p, case 1: one iteration of the insert loop.
ConcPasoNuevos(p) ==
    LET yo == procesos[p]
        item == yo.excel_data[yo.i]
        nuevos_imeis == ExcelImeis(yo.excel_data) \ DOMAIN yo.db_imeis_dict
        sig == FaseTras("nuevos", "existentes", yo.i, yo.excel_data)
        sigI == IF sig = "nuevos" THEN yo.i + 1 ELSE 1
    IN  /\ yo.pc = "nuevos"
        /\ IF item.imei \in nuevos_imeis
           THEN LET ok == InsertOk(tabla, item.imei, FALSE)
                IN  /\ tabla' = IF ok
                                THEN TablaInsert(tabla, item.imei, item.fecha_cliente, reloj)
                                ELSE tabla
                    /\ procesos' = [procesos EXCEPT ![p] =
                          [@ EXCEPT
                             !.pc = IF ok THEN sig ELSE PcTrasFallo(sig),
                             !.i = sigI,
                             !.result =
                                IF ok
                                THEN [@ EXCEPT
                                        !.nuevos = @ + 1,
                                        !.nuevos_list = Append(@,
                                            [imei |-> item.imei,
                                             fecha_cliente |-> item.fecha_cliente])]
                                ELSE [@ EXCEPT
                                        !.errors = Append(@, Error("insertar", item.imei))]]]
           ELSE /\ tabla' = tabla
                /\ procesos' = [procesos EXCEPT ![p] =
                      [@ EXCEPT !.pc = sig, !.i = sigI]]
        /\ UNCHANGED <<esquemaExiste, tablaExiste, reloj, varsSync, varsPuras, varsUI>>

\* Run p, case 2: one iteration of the update loop; after the last one
\* obsoletos_imeis is computed.
ConcPasoExistentes(p) ==
    LET yo == procesos[p]
        item == yo.excel_data[yo.i]
        existentes_imeis == ExcelImeis(yo.excel_data) \cap DOMAIN yo.db_imeis_dict
        sig == FaseTras("existentes", "obsoletos", yo.i, yo.excel_data)
        sigI == IF sig = "existentes" THEN yo.i + 1 ELSE yo.i
        sigPend == IF sig = "obsoletos"
                   THEN DOMAIN yo.db_imeis_dict \ ExcelImeis(yo.excel_data)
                   ELSE yo.pendientes
    IN  /\ yo.pc = "existentes"
        /\ IF item.imei \in existentes_imeis
           THEN IF RequiereUpdate(item, yo.db_imeis_dict)
                THEN LET ok == UpdateOk(FALSE)
                     IN  /\ tabla' = IF ok
                                     THEN TablaUpdate(tabla, item.imei, item.fecha_cliente, reloj)
                                     ELSE tabla
                         /\ procesos' = [procesos EXCEPT ![p] =
                               [@ EXCEPT
                                  !.pc = IF ok THEN sig ELSE PcTrasFallo(sig),
                                  !.i = sigI,
                                  !.pendientes = sigPend,
                                  !.result =
                                     IF ok
                                     THEN [@ EXCEPT
                                             !.actualizados = @ + 1,
                                             !.actualizados_list = Append(@,
                                                 [imei |-> item.imei,
                                                  fecha_cliente |-> item.fecha_cliente,
                                                  fecha_anterior |->
                                                     yo.db_imeis_dict[item.imei].fecha_cliente,
                                                  estaba_inactivo |->
                                                     ~yo.db_imeis_dict[item.imei].activo])]
                                     ELSE [@ EXCEPT
                                             !.errors = Append(@, Error("actualizar", item.imei))]]]
                ELSE /\ tabla' = tabla
                     /\ procesos' = [procesos EXCEPT ![p] =
                           [@ EXCEPT
                              !.pc = sig, !.i = sigI, !.pendientes = sigPend,
                              !.result = [@ EXCEPT
                                 !.sin_cambios = Append(@,
                                     [imei |-> item.imei,
                                      fecha_cliente |-> item.fecha_cliente])]]]
           ELSE /\ tabla' = tabla
                /\ procesos' = [procesos EXCEPT ![p] =
                      [@ EXCEPT !.pc = sig, !.i = sigI, !.pendientes = sigPend]]
        /\ UNCHANGED <<esquemaExiste, tablaExiste, reloj, varsSync, varsPuras, varsUI>>

\* Run p, case 3: one obsolete identifier of its lookup is marked inactive.
ConcPasoObsoletos(p) ==
    LET yo == procesos[p]
    IN  /\ yo.pc = "obsoletos"
        /\ \E imei \in yo.pendientes :
            LET ok == UpdateOk(FALSE)
            IN  /\ tabla' = IF ok THEN TablaDesactivar(tabla, imei, reloj) ELSE tabla
                /\ procesos' = [procesos EXCEPT ![p] =
                      [@ EXCEPT
                         !.pc = IF ok THEN "obsoletos" ELSE PcTrasFallo("obsoletos"),
                         !.pendientes = @ \ {imei},
                         !.result =
                            IF ok
                            THEN [@ EXCEPT
                                    !.desactivados = @ + 1,
                                    !.desactivados_list = Append(@,
                                        [imei |-> imei,
                                         fecha_cliente |->
                                            yo.db_imeis_dict[imei].fecha_cliente])]
                            ELSE [@ EXCEPT
                                    !.errors = Append(@, Error("desactivar", imei))]]]
        /\ UNCHANGED <<esquemaExiste, tablaExiste, reloj, varsSync, varsPuras, varsUI>>

\* Run p sets success and returns.
ConcRetornar(p) ==
    /\ procesos[p].pc = "obsoletos"
    /\ procesos[p].pendientes = {}
    /\ procesos' = [procesos EXCEPT ![p] =
          [@ EXCEPT !.pc = "done", !.result = [@ EXCEPT !.success = TRUE]]]
    /\ UNCHANGED <<varsStore, varsSync, varsPuras, varsUI>>

NextConc ==
    \E p \in Procs :
        \/ ConcEntrar(p)
        \/ ConcCargar(p)
        \/ ConcPasoNuevos(p)
        \/ ConcPasoExistentes(p)
        \/ ConcPasoObsoletos(p)
        \/ ConcRetornar(p)

\* ------------------------------------------------------------ limpiar_duplicados
\* Python values an identifier cell can hold: None, a str (its characters),
\* an int.
PyNone == [tipo |-> "None"]
PyStr(s) == [tipo |-> "str", val |-> s]
PyInt(n) == [tipo |-> "int", val |-> n]

\* str.lstrip / str.rstrip / str.strip over the characters of a str.
RECURSIVE LStrip(_)
LStrip(s) ==
    IF s = <<>> THEN s
    ELSE IF Head(s) = " " THEN LStrip(Tail(s)) ELSE s

RECURSIVE RStrip(_)
RStrip(s) ==
    IF s = <<>> THEN s
    ELSE IF s[Len(s)] = " " THEN RStrip(SubSeq(s, 1, Len(s) - 1)) ELSE s

\* The mutant of Strip: nothing is trimmed.
StripNada(s) == s

Strip(s) == RStrip(LStrip(s))

\* str(imei_serie): the characters of a str, the digits of an int.
StrDe(v) == IF v.tipo = "str" THEN v.val ELSE <<ToString(v.val)>>

\* Identifier cells of the tuples: None, empty, blank, padded on either
\* side, two plain ones, and an int with the str that reads the same.
ImeisCrudos ==
    {PyNone, PyStr(<<>>), PyStr(<<" ">>), PyStr(<<"A">>), PyStr(<<" ", "A">>),
     PyStr(<<"A", " ">>), PyStr(<<"B">>), PyStr(<<"7">>), PyInt(7)}

FechasDup == {D1a, D2}

\* The tuples (imei_serie, fecha_cliente) and the lists of them.
TuplasDup == ImeisCrudos \X FechasDup

EntradasDup == UNION {[1..n -> TuplasDup] : n \in 0..MaxRegistros}

\* `imei_serie is None or (isinstance(imei_serie, str) and not
\* imei_serie.strip())`: the record is skipped.
ImeiVacio(imei_serie) ==
    \/ imei_serie = PyNone
    \/ imei_serie.tipo = "str" /\ Strip(imei_serie.val) = <<>>

\* vistos.get(imei_str, 0)
VistosGet(vistos, imei_str) ==
    IF imei_str \in DOMAIN vistos THEN vistos[imei_str] ELSE 0

\* vistos[imei_str] = n
VistosSet(vistos, imei_str, n) ==
    [x \in DOMAIN vistos \cup {imei_str} |->
        IF x = imei_str THEN n ELSE vistos[x]]

\* The mutant of Ocurrencia: every report entry says 2.
OcurrenciaDos(contador) == 2

\* 'ocurrencia': contador + 1
Ocurrencia(contador) == contador + 1

\* An entry of reporte_duplicados.
ReporteDuplicado(imei_str, fecha, contador) ==
    [imei_serie |-> imei_str, fecha |-> fecha,
     ocurrencia |-> Ocurrencia(contador),
     motivo |-> <<"Duplicado encontrado", Ocurrencia(contador)>>]

\* limpiar_duplicados: the loop from record k on, with vistos,
\* registros_limpios and reporte_duplicados as the records before k left them.
RECURSIVE LimpiarDesde(_, _, _, _, _)
LimpiarDesde(regs, k, vistos, registros_limpios, reporte_duplicados) ==
    IF k > Len(regs)
    THEN [hecho |-> TRUE, limpios |-> registros_limpios,
          duplicados |-> reporte_duplicados]
    ELSE LET imei_serie == regs[k][1]
             fecha == regs[k][2]
         IN  IF ImeiVacio(imei_serie)
             THEN LimpiarDesde(regs, k + 1, vistos, registros_limpios,
                               reporte_duplicados)
             ELSE LET imei_str == Strip(StrDe(imei_serie))
                      contador == VistosGet(vistos, imei_str)
                  IN  LimpiarDesde(
                        regs, k + 1,
                        VistosSet(vistos, imei_str, contador + 1),
                        IF contador > 0 THEN registros_limpios
                        ELSE Append(registros_limpios, <<imei_str, fecha>>),
                        IF contador > 0
                        THEN Append(reporte_duplicados,
                                    ReporteDuplicado(imei_str, fecha, contador))
                        ELSE reporte_duplicados)

\* limpiar_duplicados(registros)
LimpiarDuplicados(regs) == LimpiarDesde(regs, 1, <<>>, <<>>, <<>>)

\* limpiar_duplicados has not been called.
SinLimpiar == [hecho |-> FALSE, limpios |-> <<>>, duplicados |-> <<>>]

InitDup ==
    /\ registros = <<>>
    /\ limpieza = SinLimpiar

\* The call limpiar_duplicados(registros).
Limpiar ==
    /\ ~limpieza.hecho
    /\ limpieza' = LimpiarDuplicados(registros)
    /\ UNCHANGED <<registros, varsStore, varsSync, varsConc, varsFecha, varsUI>>

\* ------------------------------------------------------------ date parsing
\* A datetime: month, day (the year is one non-leap year throughout), whether
\* it carries a time of day, and its tzinfo.
PyDatetime(mes, dia, con_hora, tz) ==
    [tipo |-> "datetime", mes |-> mes, dia |-> dia, con_hora |-> con_hora,
     tz |-> tz]

\* A str of the date column. forma "barras" is a/b/YYYY, "iso" is YYYY-a-b,
\* "otra" is text that is no date, "vacia" the empty string; `hora` is what
\* follows the date; relleno says whether blanks surround the text.
TextoFecha(relleno, forma, a, b, hora) ==
    [tipo |-> "str", relleno |-> relleno, forma |-> forma, a |-> a, b |-> b,
     hora |-> hora]

\* What follows the date in the text: nothing, " 13:31:07", " 13:31",
\* " 1:31:07 PM", " 1:31 PM", "T13:31:07", "T13:31:07Z".
HorasTexto == {"sin", "HMS", "HM", "IMSp", "IMp", "THMS", "THMSZ"}

\* Numbers written in the two positions of a date: readable as month or as
\* day, as day only, and as the last day of a long month.
NumerosFecha == {1, 2, 13, 31}

\* Cells of the date column.
ValoresFecha ==
    {PyNone, PyInt(7), PyDatetime(1, 2, TRUE, "None")}
    \cup {TextoFecha(r, f, a, b, h) :
            r \in BOOLEAN, f \in {"barras", "iso"}, a \in NumerosFecha,
            b \in NumerosFecha, h \in HorasTexto}
    \cup {TextoFecha(r, f, 1, 1, "sin") : r \in BOOLEAN, f \in {"otra", "vacia"}}

\* tzinfo passed to parsear_fecha: none, or the zone of the country.
Zonas == {"None", "America/Costa_Rica"}

\* A strptime format: the order of its date fields and what it expects after
\* the date.
Formato(campos, hora) == [campos |-> campos, hora |-> hora]

\* formatos of _parsear_fecha_string, in its order.
FormatosTrustonic ==
    <<Formato("mdy", "IMSp"), Formato("mdy", "IMp"),
      Formato("dmy", "IMSp"), Formato("dmy", "IMp"),
      Formato("mdy", "HMS"), Formato("mdy", "HM"),
      Formato("dmy", "HMS"), Formato("dmy", "HM"),
      Formato("ymd", "HMS"), Formato("ymd", "HM"),
      Formato("ymd", "THMS"), Formato("ymd", "THMSZ"),
      Formato("ymd", "sin"), Formato("mdy", "sin"), Formato("dmy", "sin")>>

\* The formats extract_all_imeis_from_excel tries, in its order:
\* '%Y-%m-%d', '%d/%m/%Y', '%m/%d/%Y', '%Y-%m-%d %H:%M:%S'.
FormatosExtraccion ==
    <<Formato("ymd", "sin"), Formato("dmy", "sin"), Formato("mdy", "sin"),
      Formato("ymd", "HMS")>>

DiasDelMes(mes) ==
    IF mes = 2 THEN 28 ELSE IF mes \in {4, 6, 9, 11} THEN 30 ELSE 31

ValueError == [tipo |-> "ValueError"]

\* datetime.strptime(texto, formato): the text must have the shape of the
\* format, whole, and name a month and a day of that month.
Strptime(texto, formato) ==
    LET encaja ==
            /\ ~texto.relleno
            /\ \/ formato.campos = "ymd" /\ texto.forma = "iso"
               \/ formato.campos \in {"mdy", "dmy"} /\ texto.forma = "barras"
            /\ texto.hora = formato.hora
        mes == IF formato.campos = "dmy" THEN texto.b ELSE texto.a
        dia == IF formato.campos = "dmy" THEN texto.a ELSE texto.b
    IN  IF encaja /\ mes \in 1..12 /\ dia \in 1..DiasDelMes(mes)
        THEN PyDatetime(mes, dia, texto.hora # "sin", "None")
        ELSE ValueError

\* The loop `for formato in formatos: try: return strptime(...) except
\* ValueError: continue`, from format k on; None when none matches.
RECURSIVE PrimerFormato(_, _, _)
PrimerFormato(texto, formatos, k) ==
    IF k > Len(formatos) THEN PyNone
    ELSE IF Strptime(texto, formatos[k]) # ValueError
         THEN Strptime(texto, formatos[k])
         ELSE PrimerFormato(texto, formatos, k + 1)

\* str.strip() of a text of the date column.
StripTexto(texto) == [texto EXCEPT !.relleno = FALSE]

\* _parsear_fecha_string(valor_str)
ParsearFechaString(valor_str) == PrimerFormato(valor_str, FormatosTrustonic, 1)

\* parsear_fecha(valor, zona_horaria)
ParsearFecha(v, zona_horaria) ==
    IF v = PyNone THEN PyNone
    ELSE LET fecha ==
                IF v.tipo = "datetime" THEN v
                ELSE IF v.tipo = "str" THEN ParsearFechaString(StripTexto(v))
                ELSE PyNone
         IN  IF fecha = PyNone THEN PyNone
             ELSE IF zona_horaria # "None" /\ fecha.tz = "None"
             THEN [fecha EXCEPT !.tz = zona_horaria]
             ELSE fecha

\* `if fecha_raw:` None, the empty string and 0 are false.
Verdadero(v) ==
    /\ v # PyNone
    /\ v.tipo = "str" => ~(v.forma = "vacia" /\ ~v.relleno)
    /\ v.tipo = "int" => v.val # 0

\* extract_all_imeis_from_excel: fecha_cliente of a row whose date cell is
\* fecha_raw.
FechaClienteDe(fecha_raw) ==
    IF ~Verdadero(fecha_raw) THEN PyNone
    ELSE IF fecha_raw.tipo = "datetime" THEN fecha_raw
    ELSE IF fecha_raw.tipo = "str"
    THEN PrimerFormato(StripTexto(fecha_raw), FormatosExtraccion, 1)
    ELSE PyNone

\* The parser has not been called.
Pendiente == [tipo |-> "pendiente"]

InitFecha ==
    /\ valor = PyNone
    /\ fecha_trustonic = Pendiente
    /\ fecha_extraida = Pendiente

\* parsear_fecha is called on the cell.
ParsearFechaLlamada ==
    /\ fecha_trustonic = Pendiente
    /\ \E zona_horaria \in Zonas :
          fecha_trustonic' = ParsearFecha(valor, zona_horaria)
    /\ UNCHANGED <<valor, fecha_extraida, varsStore, varsSync, varsConc, varsDup, varsUI>>

\* extract_all_imeis_from_excel reads the cell as the date of a row.
ExtraerFechaCliente ==
    /\ fecha_extraida = Pendiente
    /\ fecha_extraida' = FechaClienteDe(valor)
    /\ UNCHANGED <<valor, fecha_trustonic, varsStore, varsSync, varsConc, varsDup, varsUI>>

\* ------------------------------------------------------------ monitoring switch
\* TabPrincipal.__init__: monitoring off, no job, no thread, event clear.
InitMonitor ==
    /\ monitoring_active = FALSE
    /\ stop_monitoring_event = FALSE
    /\ monitoring_job = None
    /\ monitoring_thread = "None"
    /\ titulos_pendientes = 0
    /\ temporizadores = {}
    /\ hilos_sueltos = 0
    /\ jobs_creados = 0

\* TabPrincipal.__init__: nothing is configured.
InitConfig ==
    /\ email_config = FALSE
    /\ search_params = 0
    /\ notify_users = FALSE

\* _validate_monitoring_config.
ValidateMonitoringConfig ==
    /\ email_config
    /\ search_params > 0
    /\ notify_users

\* _open_email_config, the dialog accepted.
OpenEmailConfig ==
    /\ email_config' \in BOOLEAN \ {email_config}
    /\ UNCHANGED <<search_params, notify_users>>
    /\ UNCHANGED <<sinTab, varsMonitor>>

\* _open_search_params, the dialog accepted.
OpenSearchParams ==
    /\ search_params' \in (0..MaxTitulos) \ {search_params}
    /\ UNCHANGED <<email_config, notify_users>>
    /\ UNCHANGED <<sinTab, varsMonitor>>

\* _open_notify_users, the dialog accepted.
OpenNotifyUsers ==
    /\ notify_users' \in BOOLEAN \ {notify_users}
    /\ UNCHANGED <<email_config, search_params>>
    /\ UNCHANGED <<sinTab, varsMonitor>>

\* The mutant of HiloVivo: the last thread is never taken for alive.
HiloVivoNunca(hilo) == FALSE

\* `self.monitoring_thread and self.monitoring_thread.is_alive()`.
HiloVivo(hilo) == hilo = "vivo"

\* _start_monitoring_cycle, called with monitoring switched on or off and
\* with the jobs `pendientes_tk` pending in Tk: either it returns at once, or
\* it finds the last thread alive and schedules itself again, or it starts
\* a thread (over the titles configured) and schedules the next cycle.
\* parent.after gives the next job id.
StartMonitoringCycle(activo, pendientes_tk) ==
    IF ~activo
    THEN /\ temporizadores' = pendientes_tk
         /\ UNCHANGED <<monitoring_job, monitoring_thread, titulos_pendientes,
                        hilos_sueltos, jobs_creados>>
    ELSE /\ jobs_creados' = jobs_creados + 1
         /\ monitoring_job' = <<jobs_creados'>>
         /\ temporizadores' = pendientes_tk \cup {jobs_creados'}
         /\ IF HiloVivo(monitoring_thread)
            THEN UNCHANGED <<monitoring_thread, titulos_pendientes, hilos_sueltos>>
            ELSE /\ monitoring_thread' = "vivo"
                 /\ titulos_pendientes' = search_params
                 /\ hilos_sueltos' = IF monitoring_thread = "vivo"
                                     THEN hilos_sueltos + 1
                                     ELSE hilos_sueltos

\* _toggle_monitoring with monitoring off and a complete configuration (with
\* an incomplete one it returns and nothing changes).
IniciarMonitoreo ==
    /\ ~monitoring_active
    /\ ValidateMonitoringConfig
    /\ jobs_creados < MaxJobs
    /\ monitoring_active' = TRUE
    /\ stop_monitoring_event' = FALSE
    /\ StartMonitoringCycle(TRUE, temporizadores)
    /\ UNCHANGED <<sinTab, varsConfig>>

\* _toggle_monitoring with monitoring on.
DetenerMonitoreo ==
    /\ monitoring_active
    /\ monitoring_active' = FALSE
    /\ stop_monitoring_event' = TRUE
    /\ IF monitoring_job # None
       THEN /\ temporizadores' = temporizadores \ {monitoring_job[1]}
            /\ monitoring_job' = None
       ELSE UNCHANGED <<temporizadores, monitoring_job>>
    /\ UNCHANGED <<monitoring_thread, titulos_pendientes, hilos_sueltos, jobs_creados>>
    /\ UNCHANGED <<sinTab, varsConfig>>

\* Tk runs a pending job: _start_monitoring_cycle.
TemporizadorDispara ==
    /\ \E j \in temporizadores :
          StartMonitoringCycle(monitoring_active, temporizadores \ {j})
    /\ monitoring_active => jobs_creados < MaxJobs
    /\ UNCHANGED <<monitoring_active, stop_monitoring_event>>
    /\ UNCHANGED <<sinTab, varsConfig>>

\* _execute_monitoring_thread, one step of the last thread: it returns when
\* it finds the event set or no title left, else it handles one title.
HiloPaso ==
    /\ monitoring_thread = "vivo"
    /\ IF stop_monitoring_event \/ titulos_pendientes = 0
       THEN /\ monitoring_thread' = "muerto"
            /\ titulos_pendientes' = 0
       ELSE /\ titulos_pendientes' = titulos_pendientes - 1
            /\ UNCHANGED monitoring_thread
    /\ UNCHANGED <<monitoring_active, stop_monitoring_event, monitoring_job,
                   temporizadores, hilos_sueltos, jobs_creados>>
    /\ UNCHANGED <<sinTab, varsConfig>>

\* ------------------------------------------------------------ process_excel_files
\* A file passed in: its path's basename, and what ExcelProcessor makes of
\* it: load_file fails ("ilegible": unreadable, or none of the required
\* columns), it loads with no record ("sin_datos"), or with one ("datos").
NombresArchivo == {"a.xlsx", "b.xlsx"}
TiposArchivo == {"ilegible", "sin_datos", "datos"}
Archivos == [nombre : NombresArchivo, tipo : TiposArchivo]
ListasArchivos == UNION {[1..n -> Archivos] : n \in 0..MaxArchivos}

SinResumen == [hecho |-> FALSE]

\* The dict process_excel_files returns.
Resumen(success, total_files, processed_count, failed_count, total_records) ==
    [hecho |-> TRUE, success |-> success, total_files |-> total_files,
     processed_files |-> processed_count, failed_files |-> failed_count,
     total_records |-> total_records]

\* ExcelAutomationProcessor.__init__; no call yet.
InitArchivos ==
    /\ excel_files = <<>>
    /\ archivo_i = 1
    /\ processed_files = <<>>
    /\ failed_files = <<>>
    /\ total_records_processed = 0
    /\ pc_archivos = "idle"
    /\ resumen = SinResumen

\* The mutant of FinalSuccess: any failed file makes the run a failure.
FinalSuccessEstricto(processed_count, failed_count) == failed_count = 0

\* process_excel_files: final_success.
FinalSuccess(processed_count, failed_count) ==
    IF failed_count = 0 THEN TRUE
    ELSE IF processed_count > 0 THEN TRUE
    ELSE FALSE

\* What db_uploader.upload_data does with the one record of a file:
\* (True, counts) after the INSERT was tried, (False, counts) when the
\* connection could not be opened or the upload broke off, or it raises.
ResultadosSubida ==
    {[tipo |-> "retorna", upload_success |-> TRUE, success_count |-> 1, error_count |-> 0],
     [tipo |-> "retorna", upload_success |-> TRUE, success_count |-> 0, error_count |-> 1],
     [tipo |-> "retorna", upload_success |-> FALSE, success_count |-> 0, error_count |-> 0],
     [tipo |-> "excepcion", upload_success |-> FALSE, success_count |-> 0, error_count |-> 0]}

\* process_excel_files up to its loop: the empty list returns at once, a
\* table structure that cannot be verified returns a failure for all files,
\* else the fields are reset and the loop starts.
ProcesarArchivos ==
    /\ pc_archivos = "idle"
    /\ processed_files' = <<>>
    /\ failed_files' = <<>>
    /\ total_records_processed' = 0
    /\ archivo_i' = 1
    /\ IF excel_files = <<>>
       THEN /\ resumen' = Resumen(TRUE, 0, 0, 0, 0)
            /\ pc_archivos' = "done"
       ELSE \E estructura_ok \in BOOLEAN :
              IF estructura_ok
              THEN /\ pc_archivos' = "archivos"
                   /\ UNCHANGED resumen
              ELSE /\ resumen' = Resumen(FALSE, Len(excel_files), 0,
                                         Len(excel_files), 0)
                   /\ pc_archivos' = "done"
    /\ UNCHANGED excel_files
    /\ UNCHANGED sinArchivos

\* process_excel_files: one iteration of the loop over excel_files, the
\* whole try block with its except clause.
ArchivoPaso ==
    /\ pc_archivos = "archivos"
    /\ archivo_i <= Len(excel_files)
    /\ LET excel_file == excel_files[archivo_i]
           filename == excel_file.nombre
           Fallo(error) == /\ failed_files' =
                                Append(failed_files, [file |-> filename, error |-> error])
                           /\ UNCHANGED <<processed_files, total_records_processed>>
       IN  CASE excel_file.tipo = "ilegible" -> Fallo("carga")
             [] excel_file.tipo = "sin_datos" -> Fallo("sin_datos")
             [] OTHER ->
                  \E subida \in ResultadosSubida :
                     IF subida.tipo = "excepcion"
                     THEN Fallo("excepcion")
                     ELSE IF subida.upload_success
                     THEN /\ processed_files' = Append(processed_files,
                                [file |-> filename, records |-> subida.success_count,
                                 errors |-> subida.error_count])
                          /\ total_records_processed' =
                                total_records_processed + subida.success_count
                          /\ UNCHANGED failed_files
                     ELSE Fallo("subida")
    /\ archivo_i' = archivo_i + 1
    /\ UNCHANGED <<excel_files, pc_archivos, resumen>>
    /\ UNCHANGED sinArchivos

\* process_excel_files after the loop: the counts and the result returned
\* (the temporary directory is removed; the summary text is not modelled).
ResumirArchivos ==
    /\ pc_archivos = "archivos"
    /\ archivo_i > Len(excel_files)
    /\ LET processed_count == Len(processed_files)
           failed_count == Len(failed_files)
       IN  resumen' = Resumen(FinalSuccess(processed_count, failed_count),
                              Len(excel_files), processed_count, failed_count,
                              total_records_processed)
    /\ pc_archivos' = "done"
    /\ UNCHANGED <<excel_files, archivo_i, processed_files, failed_files,
                   total_records_processed>>
    /\ UNCHANGED sinArchivos

\* ------------------------------------------------------------ profile manager
Dias == 1..MaxDias
Minutos == 1..MaxMinutos

\* A profile, as PerfilDialog.save builds it: enabled, the scheduled time
\* (hour and minute, one of the minutes the clock stops at) and last_run,
\* None or the "%Y-%m-%d %H:%M:%S" text of a moment: its day and minute.
PerfilNuevo(enabled, minuto) ==
    [enabled |-> enabled, minute |-> minuto, last_run |-> None]

PerfilesNuevos == {PerfilNuevo(e, m) : e \in BOOLEAN, m \in Minutos}

\* now.strftime("%Y-%m-%d %H:%M:%S") and datetime.strptime of it: the text
\* keeps day and minute.
Strftime(momento) == <<momento.dia, momento.minuto>>
StrptimeDia(texto) == texto[1]

\* check_profiles_execution: last_run is of the same day as now.
YaEjecutadoHoy(profile, momento) ==
    /\ profile.last_run # None
    /\ StrptimeDia(profile.last_run) = momento.dia

\* check_profiles_execution: the profile its loop stops at, 0 if none: the
\* first enabled one, not run today, whose time is the current minute.
PerfilAEjecutar(lista, momento) ==
    LET Toca(k) == /\ lista[k].enabled
                   /\ ~YaEjecutadoHoy(lista[k], momento)
                   /\ lista[k].minute = momento.minuto
        candidatos == {k \in 1..Len(lista) : Toca(k)}
    IN  IF candidatos = {} THEN 0
        ELSE CHOOSE k \in candidatos : \A j \in candidatos : k <= j

\* ProfileManager.__init__ and load_profiles of an empty file.
InitPerfiles ==
    /\ profiles = <<>>
    /\ is_processing = FALSE
    /\ hilos_proceso = 0
    /\ confirmacion = None
    /\ now = [dia |-> 1, minuto |-> 1]
    /\ auto_hoy = <<>>
    /\ observado = <<>>
    /\ desatendidos = {}

\* execute_profile: without a database connector it returns; else it sets
\* is_processing and starts the thread.
ExecuteProfile(conector) ==
    IF conector
    THEN /\ is_processing' = TRUE
         /\ hilos_proceso' = hilos_proceso + 1
    ELSE UNCHANGED <<is_processing, hilos_proceso>>

\* The timer callback check_profiles of start_profile_timer: with profiles
\* it calls check_profiles_execution, which returns when a run is in
\* progress and else marks and executes the first profile that is due.
CheckProfiles ==
    /\ profiles # <<>>
    /\ observado' = [k \in 1..Len(profiles) |->
                        observado[k] \/ (profiles[k].enabled
                                          /\ profiles[k].minute = now.minuto)]
    /\ LET k == PerfilAEjecutar(profiles, now)
       IN  IF is_processing \/ k = 0
           THEN UNCHANGED <<profiles, is_processing, hilos_proceso, auto_hoy>>
           ELSE /\ hilos_proceso < MaxHilos
                /\ auto_hoy[k] < MaxAuto
                /\ profiles' = [profiles EXCEPT ![k].last_run = Strftime(now)]
                /\ \E conector \in BOOLEAN :
                      /\ ExecuteProfile(conector)
                      /\ auto_hoy' = IF conector
                                      THEN [auto_hoy EXCEPT ![k] = @ + 1]
                                      ELSE auto_hoy
    /\ UNCHANGED <<confirmacion, now, desatendidos>>
    /\ UNCHANGED sinPerfiles

\* execute_profile_manually up to its confirmation dialog: a profile is
\* selected, no run is in progress and there is a connector.
AbrirConfirmacion ==
    /\ confirmacion = None
    /\ ~is_processing
    /\ \E selected_index \in 1..Len(profiles) :
          confirmacion' = <<selected_index>>
    /\ UNCHANGED <<profiles, is_processing, hilos_proceso, now, auto_hoy,
                   observado, desatendidos>>
    /\ UNCHANGED sinPerfiles

\* execute_profile_manually, the dialog answered: on No it returns, on Yes
\* it calls execute_profile(profile, is_manual=True).
ResponderConfirmacion ==
    /\ confirmacion # None
    /\ confirmacion' = None
    /\ \E si \in BOOLEAN, conector \in BOOLEAN :
          IF si
          THEN /\ conector => hilos_proceso < MaxHilos
               /\ ExecuteProfile(conector)
          ELSE UNCHANGED <<is_processing, hilos_proceso>>
    /\ UNCHANGED <<profiles, now, auto_hoy, observado, desatendidos>>
    /\ UNCHANGED sinPerfiles

\* edit_profile, the dialog saved: the selected profile is replaced by the
\* dict PerfilDialog.save built.
EditProfile ==
    /\ confirmacion = None
    /\ \E selected_index \in 1..Len(profiles), nuevo \in PerfilesNuevos :
          /\ profiles' = [profiles EXCEPT ![selected_index] = nuevo]
          /\ observado' = [observado EXCEPT ![selected_index] = FALSE]
    /\ UNCHANGED <<is_processing, hilos_proceso, confirmacion, now, auto_hoy,
                   desatendidos>>
    /\ UNCHANGED sinPerfiles

\* _process_profile_thread returns: its finally clause clears is_processing.
ProcessProfileThreadFin ==
    /\ hilos_proceso > 0
    /\ hilos_proceso' = hilos_proceso - 1
    /\ is_processing' = FALSE
    /\ UNCHANGED <<profiles, confirmacion, now, auto_hoy, observado,
                   desatendidos>>
    /\ UNCHANGED sinPerfiles

\* The clock reaches the next minute, or the first minute of the next day.
PasaMinuto ==
    /\ IF now.minuto < MaxMinutos
       THEN /\ now' = [now EXCEPT !.minuto = @ + 1]
            /\ UNCHANGED <<auto_hoy, observado, desatendidos>>
       ELSE /\ now.dia < MaxDias
            /\ now' = [dia |-> now.dia + 1, minuto |-> 1]
            /\ desatendidos' = {k \in 1..Len(profiles) :
                                    observado[k] /\ auto_hoy[k] = 0}
            /\ auto_hoy' = [k \in 1..Len(profiles) |-> 0]
            /\ observado' = [k \in 1..Len(profiles) |-> FALSE]
    /\ UNCHANGED <<profiles, is_processing, hilos_proceso, confirmacion>>
    /\ UNCHANGED sinPerfiles

\* ------------------------------------------------------------ notifications
\* A matching email: whether it carries an Excel attachment, whether
\* extract_all_imeis_from_excel succeeds on it, and whether it has a row.
Correos == [excel : BOOLEAN, extraccion_ok : BOOLEAN, con_filas : BOOLEAN]
ListasCorreos == UNION {[1..n -> Correos] : n \in 0..MaxCorreos}

\* notify_emails, as _validate_monitoring_config lets it through: not empty.
NotifyEmails == {"u1", "u2"}

\* A local variable no assignment has reached yet.
Unbound == [tipo |-> "unbound"]

\* A file written into the temporary directory of email k.
Ruta(k, clase) == [tipo |-> "ruta", de |-> k, clase |-> clase]

\* The batch extracted from an email with a row.
LoteCorreo == <<[imei |-> "A", fecha_cliente |-> None]>>

\* A truthy analisis_datos with success.
AnalisisOk(a) == a # Unbound /\ a # None /\ a.success

\* os.path.exists of a path while email k is handled: the temporary
\* directory of every email before was removed.
Exists(ruta, k) == ruta.de = k

\* The notification monitor_and_notify builds for one recipient while it
\* handles email k with the locals as they are: which email's analysis
\* counts its body carries (0: none), and what is attached.
Notificacion(k, notify_email, adat, pdf, txt) ==
    [correo |-> k, para |-> notify_email,
     cuentas_de |-> IF AnalisisOk(adat) THEN adat.de ELSE 0,
     adjunto |-> IF pdf # None /\ Exists(pdf, k) THEN pdf
                 ELSE IF txt # None /\ Exists(txt, k) THEN txt
                 ELSE None]

\* No call of monitor_and_notify yet.
InitNotif ==
    /\ correos = <<>>
    /\ postgres_connector = FALSE
    /\ correo_i = 1
    /\ analisis_datos = Unbound
    /\ pdf_file_path = Unbound
    /\ text_file_path = Unbound
    /\ leidos = {}
    /\ enviados = {}
    /\ pc_notif = "idle"

\* monitor_and_notify up to its loop: results initialised, the unread
\* emails of today searched.
MonitorEntrar ==
    /\ pc_notif = "idle"
    /\ pc_notif' = IF correos = <<>> THEN "done" ELSE "correos"
    /\ UNCHANGED <<correos, postgres_connector, correo_i, analisis_datos,
                   pdf_file_path, text_file_path, leidos, enviados>>
    /\ UNCHANGED sinNotif

\* monitor_and_notify: the body of its loop for one matching email:
\* attachments, extraction, analysis, report, the \Seen flag and the
\* notifications. Reading a local that is not bound raises, which ends the
\* loop in the except clause of the function. The analysis is
\* analizar_cambios_bd on the connector passed; a report that is due may or
\* may not be generated.
ProcesarCorreo ==
    /\ pc_notif = "correos"
    /\ correo_i <= Len(correos)
    /\ \E pdf_success \in BOOLEAN :
        LET c == correos[correo_i]
            extraido == c.excel /\ c.extraccion_ok
            analizado == extraido /\ postgres_connector /\ c.con_filas
            resultado == AnalizarCambiosBD(LoteCorreo,
                             ExecuteQuerySelect(ColumnasAnalisis, FALSE))
            adat == IF ~extraido THEN analisis_datos
                    ELSE IF analizado
                    THEN [de |-> correo_i, success |-> resultado.success]
                    ELSE None
            con_pdf == extraido /\ c.con_filas /\ AnalisisOk(adat) /\ pdf_success
            pdf == IF ~extraido THEN pdf_file_path
                   ELSE IF con_pdf THEN Ruta(correo_i, "pdf")
                   ELSE None
            txt == IF extraido /\ ~con_pdf /\ c.con_filas
                   THEN Ruta(correo_i, "txt")
                   ELSE None
        IN  /\ analisis_datos' = adat
            /\ pdf_file_path' = pdf
            /\ text_file_path' = txt
            /\ leidos' = leidos \cup {correo_i}
            /\ IF adat = Unbound \/ pdf = Unbound
               THEN /\ pc_notif' = "error"
                    /\ UNCHANGED <<enviados, correo_i>>
               ELSE /\ enviados' = enviados \cup
                          {Notificacion(correo_i, u, adat, pdf, txt) : u \in NotifyEmails}
                    /\ correo_i' = correo_i + 1
                    /\ UNCHANGED pc_notif
    /\ UNCHANGED <<correos, postgres_connector>>
    /\ UNCHANGED sinNotif

\* monitor_and_notify: the loop is over, results returned.
MonitorRetornar ==
    /\ pc_notif = "correos"
    /\ correo_i > Len(correos)
    /\ pc_notif' = "done"
    /\ UNCHANGED <<correos, postgres_connector, correo_i, analisis_datos,
                   pdf_file_path, text_file_path, leidos, enviados>>
    /\ UNCHANGED sinNotif

InitUI ==
    /\ InitMonitor
    /\ InitConfig
    /\ InitArchivos
    /\ InitPerfiles
    /\ InitNotif

\* ------------------------------------------------------------ specification
\* The database found before the first run.
InitStore ==
    /\ esquemaExiste \in BOOLEAN
    /\ tablaExiste \in BOOLEAN
    /\ tablaExiste => esquemaExiste
    /\ tabla \in TablasIniciales
    /\ ~tablaExiste => tabla = {}
    /\ reloj = 0

\* No cycle of monitor_and_notify has started.
InitSync ==
    /\ pc = "idle"
    /\ excel_data = <<>>
    /\ analisis = ResultadoAnalisis(FALSE, 0, SinClasificar, "None")
    /\ result = ResultInicial(<<>>)
    /\ tabla_asegurada = "pendiente"
    /\ db_imeis_result = RespNone
    /\ db_imeis_dict = <<>>
    /\ i = 1
    /\ pendientes = {}
    /\ sentencias = 0
    /\ fallidas = 0
    /\ tablaInicio = tabla
    /\ repetida = FALSE
    /\ corridas = 0

Init ==
    /\ InitStore
    /\ InitSync
    /\ InitConc
    /\ InitDup
    /\ InitFecha
    /\ InitUI

\* No database is used by the pure functions.
StoreSinUso ==
    /\ esquemaExiste = FALSE
    /\ tablaExiste = FALSE
    /\ tabla = {}
    /\ reloj = 0

\* limpiar_duplicados is about to be called with any list of tuples.
InitLimpieza ==
    /\ StoreSinUso
    /\ InitSync
    /\ InitConc
    /\ registros \in EntradasDup
    /\ limpieza = SinLimpiar
    /\ InitFecha
    /\ InitUI

Next ==
    \/ MonitorAnalizar
    \/ AsegurarTabla
    \/ CargarBD
    \/ PasoNuevos
    \/ FinNuevos
    \/ PasoExistentes
    \/ FinExistentes
    \/ PasoObsoletos
    \/ Retornar

Spec == Init /\ [][Next]_vars

\* The two concurrent runs, from the same initial states.
SpecConc == Init /\ [][NextConc]_vars

\* A cell of the date column is about to be parsed.
InitFechas ==
    /\ StoreSinUso
    /\ InitSync
    /\ InitConc
    /\ InitDup
    /\ valor \in ValoresFecha
    /\ fecha_trustonic = Pendiente
    /\ fecha_extraida = Pendiente
    /\ InitUI

\* The connectors are idle and no database is used.
SinMotor ==
    /\ StoreSinUso
    /\ InitSync
    /\ InitConc
    /\ InitDup
    /\ InitFecha

NextMon ==
    \/ IniciarMonitoreo
    \/ DetenerMonitoreo
    \/ TemporizadorDispara
    \/ HiloPaso
    \/ OpenEmailConfig
    \/ OpenSearchParams
    \/ OpenNotifyUsers

\* The application after TabPrincipal was constructed, nothing running.
InitMon ==
    /\ SinMotor
    /\ InitUI

\* The monitoring switch of TabPrincipal, its timer and its thread.
SpecMon == InitMon /\ [][NextMon]_vars

NextArchivos ==
    \/ ProcesarArchivos
    \/ ArchivoPaso
    \/ ResumirArchivos

\* process_excel_files is about to be called with any list of files.
InitProcesar ==
    /\ SinMotor
    /\ InitMonitor
    /\ InitConfig
    /\ excel_files \in ListasArchivos
    /\ archivo_i = 1
    /\ processed_files = <<>>
    /\ failed_files = <<>>
    /\ total_records_processed = 0
    /\ pc_archivos = "idle"
    /\ resumen = SinResumen
    /\ InitPerfiles
    /\ InitNotif

\* process_excel_files over every list of files.
SpecArchivos == InitProcesar /\ [][NextArchivos]_vars

NextPerfiles ==
    \/ CheckProfiles
    \/ AbrirConfirmacion
    \/ ResponderConfirmacion
    \/ EditProfile
    \/ ProcessProfileThreadFin
    \/ PasaMinuto

\* initialize: the profiles file was loaded, with profiles never run, and
\* the timer started.
InitGestor ==
    /\ SinMotor
    /\ InitMonitor
    /\ InitConfig
    /\ InitArchivos
    /\ profiles \in UNION {[1..n -> PerfilesNuevos] : n \in 1..MaxPerfiles}
    /\ is_processing = FALSE
    /\ hilos_proceso = 0
    /\ confirmacion = None
    /\ now = [dia |-> 1, minuto |-> 1]
    /\ auto_hoy = [k \in 1..Len(profiles) |-> 0]
    /\ observado = [k \in 1..Len(profiles) |-> FALSE]
    /\ desatendidos = {}
    /\ InitNotif

\* The profile scheduler with the user's actions and the worker threads.
SpecPerfiles == InitGestor /\ [][NextPerfiles]_vars

NextNotif ==
    \/ MonitorEntrar
    \/ ProcesarCorreo
    \/ MonitorRetornar

\* monitor_and_notify is about to be called, with or without a connector,
\* on a mailbox with any matching emails.
InitCorreos ==
    /\ SinMotor
    /\ InitMonitor
    /\ InitConfig
    /\ InitArchivos
    /\ InitPerfiles
    /\ correos \in ListasCorreos
    /\ postgres_connector \in BOOLEAN
    /\ correo_i = 1
    /\ analisis_datos = Unbound
    /\ pdf_file_path = Unbound
    /\ text_file_path = Unbound
    /\ leidos = {}
    /\ enviados = {}
    /\ pc_notif = "idle"

\* The notification loop of monitor_and_notify over every mailbox.
SpecNotif == InitCorreos /\ [][NextNotif]_vars

\* Monitoring was switched on (the state IniciarMonitoreo leaves) and its
\* thread is about to call monitor_and_notify.
InitStop ==
    /\ InitStore
    /\ InitSync
    /\ InitConc
    /\ InitDup
    /\ InitFecha
    /\ monitoring_active = TRUE
    /\ stop_monitoring_event = FALSE
    /\ monitoring_job = <<1>>
    /\ monitoring_thread = "vivo"
    /\ titulos_pendientes = 1
    /\ temporizadores = {1}
    /\ hilos_sueltos = 0
    /\ jobs_creados = 1
    /\ email_config = TRUE
    /\ search_params = 1
    /\ notify_users = TRUE
    /\ InitArchivos
    /\ InitPerfiles
    /\ InitNotif

NextStop ==
    \/ Next
    \/ DetenerMonitoreo

\* The cycle of the monitoring thread, with the user switching monitoring
\* off at any moment.
SpecStop == InitStop /\ [][NextStop]_vars

NextDup == Limpiar

\* limpiar_duplicados over every list of tuples.
SpecDup == InitLimpieza /\ [][NextDup]_vars

NextFecha ==
    \/ ParsearFechaLlamada
    \/ ExtraerFechaCliente

\* The two date parsers over every cell.
SpecFecha == InitFechas /\ [][NextFecha]_vars

\* ------------------------------------------------------------ properties
\* The run has returned with success and an empty errors list.
CorridaLimpia == pc = "done" /\ result.success /\ result.errors = <<>>

\* No identifier occurs twice in the batch.
SinDuplicados(datos) ==
    \A j \in 1..Len(datos), k \in 1..Len(datos) :
        datos[j].imei = datos[k].imei => j = k

ImeisDe(lista) == {lista[k].imei : k \in 1..Len(lista)}

\* C1: no deletion. No step of a run removes a row: every row of the table is
\* still there, with its identifier and its creation time, after the step
\* (it may only have been updated or marked inactive).
C1_NoDeletion ==
    [][\A r \in tabla :
         \E r2 \in tabla' :
            r2.imei_serie = r.imei_serie /\ r2.creado = r.creado]_vars

\* A row inserted by an earlier run, absent from the batch of a later run
\* that has returned, is in the table, inactive.
C1_Witness ==
    /\ pc = "done"
    /\ \E r \in tabla :
        /\ r.creado > 0
        /\ r.creado < reloj
        /\ ~r.activo
        /\ r.imei_serie \notin ExcelImeis(excel_data)

\* C2: idempotence of inserts and updates. A run that repeats the
\* deduplicated batch of the run just before it, both with every write
\* succeeding, reports nuevos = 0 and actualizados = 0 and lists every record
\* of the batch in sin_cambios.
C2_Idempotence ==
    (CorridaLimpia /\ repetida /\ SinDuplicados(excel_data)) =>
        /\ result.nuevos = 0
        /\ result.actualizados = 0
        /\ result.nuevos_list = <<>>
        /\ result.actualizados_list = <<>>
        /\ result.sin_cambios = excel_data

\* A repeated run has returned clean, after a first run that wrote a None date.
C2_Witness ==
    /\ CorridaLimpia
    /\ repetida
    /\ SinDuplicados(excel_data)
    /\ Len(excel_data) = 2
    /\ \E k \in 1..Len(excel_data) : excel_data[k].fecha_cliente = None
    /\ tabla_asegurada = "si"

\* C3: zero writes on re-run. A run that repeats the batch of the run just
\* before it sends no write statement, and leaves the table (updated_at
\* included) as the first run left it.
C3_ZeroWritesOnRerun ==
    (CorridaLimpia /\ repetida /\ SinDuplicados(excel_data)) =>
        /\ sentencias = 0
        /\ tabla = tablaInicio

\* C4: deactivation correctness. After a run in which every write succeeded,
\* a row is active exactly when its identifier is in the batch of that run.
C4_Deactivation ==
    CorridaLimpia =>
        \A r \in tabla : r.activo <=> r.imei_serie \in ExcelImeis(excel_data)

\* The identifier is named by entries of exactly one of the three lists.
EnExactamenteUna(x, nuevos, actualizados, sin_cambios) ==
    Cardinality({n \in 1..3 :
        x \in ImeisDe(<<nuevos, actualizados, sin_cambios>>[n])}) = 1

\* C5: classification completeness. Every identifier of the batch is in
\* exactly one of nuevos / actualizados / sin_cambios, and the three lengths
\* add up to total; of the analysis when it succeeded, and of the run when it
\* returned with every write succeeding.
C5_Completeness ==
    /\ (pc # "idle" /\ analisis.success) =>
        /\ \A x \in ExcelImeis(excel_data) :
              EnExactamenteUna(x, analisis.nuevos, analisis.actualizados,
                               analisis.sin_cambios)
        /\ Len(analisis.nuevos) + Len(analisis.actualizados)
             + Len(analisis.sin_cambios) = analisis.total
    /\ CorridaLimpia =>
        /\ \A x \in ExcelImeis(excel_data) :
              EnExactamenteUna(x, result.nuevos_list, result.actualizados_list,
                               result.sin_cambios)
        /\ Len(result.nuevos_list) + Len(result.actualizados_list)
             + Len(result.sin_cambios) = result.total

\* The Change Analyzer rule, as the design states it. date_changed: both
\* dates present, the calendar days differ; one missing, the other not.
ReglaFechaCambiada(extraida, persistida) ==
    IF extraida = None THEN persistida # None
    ELSE IF persistida = None THEN TRUE
    ELSE extraida[1] # persistida[1]

ReglaClase(imei, fecha, lookup) ==
    IF imei \notin DOMAIN lookup THEN "new"
    ELSE IF ReglaFechaCambiada(fecha, lookup[imei].fecha_cliente)
            \/ ~lookup[imei].activo
    THEN "updated"
    ELSE "unchanged"

\* The records of the batch the rule puts in class c, in batch order.
DeClase(datos, lookup, c) ==
    LET EnClase(item) == ReglaClase(item.imei, item.fecha_cliente, lookup) = c
    IN  SelectSeq(datos, EnClase)

\* How many entries of a list name identifier x.
CuentaImei(lista, x) == Cardinality({k \in 1..Len(lista) : lista[k].imei = x})

CuentaError(op, x) ==
    Cardinality({k \in 1..Len(result.errors) : result.errors[k] = Error(op, x)})

\* An entry of an `updated` list carries previous_date and was_inactive of
\* the lookup, and the rule classifies its record `updated`.
EntradaActualizada(e, lookup) ==
    /\ ReglaClase(e.imei, e.fecha_cliente, lookup) = "updated"
    /\ e.fecha_anterior = lookup[e.imei].fecha_cliente
    /\ e.estaba_inactivo = ~lookup[e.imei].activo

\* C6: the Change Analyzer rule. A record is classified new iff its
\* identifier is absent from the lookup; updated iff present and (date changed
\* at date granularity, null against non-null being a change, or the row
\* inactive), carrying previous_date and was_inactive; unchanged otherwise.
\* Of sync_imeis: what a returned run wrote, listed or failed to write, against
\* the lookup it loaded. Of the loop of analizar_cambios_bd: what it gives for
\* the batch and the rows of the table.
C6_AnalyzerRule ==
    /\ (pc = "done" /\ result.success) =>
        /\ \A x \in IMEIS :
            /\ CuentaImei(result.nuevos_list, x) + CuentaError("insertar", x)
                 = CuentaImei(DeClase(excel_data, db_imeis_dict, "new"), x)
            /\ CuentaImei(result.actualizados_list, x) + CuentaError("actualizar", x)
                 = CuentaImei(DeClase(excel_data, db_imeis_dict, "updated"), x)
        /\ \A k \in 1..Len(result.nuevos_list) :
              ReglaClase(result.nuevos_list[k].imei,
                         result.nuevos_list[k].fecha_cliente, db_imeis_dict) = "new"
        /\ \A k \in 1..Len(result.actualizados_list) :
              EntradaActualizada(result.actualizados_list[k], db_imeis_dict)
        /\ result.sin_cambios = DeClase(excel_data, db_imeis_dict, "unchanged")
    /\ pc # "idle" =>
        LET lookup == DictDeFilas(tabla)
            c == ClasificarAnalisis(excel_data, lookup)
            viejos == DeClase(excel_data, lookup, "updated")
        IN  /\ c.nuevos = DeClase(excel_data, lookup, "new")
            /\ c.sin_cambios = DeClase(excel_data, lookup, "unchanged")
            /\ Len(c.actualizados) = Len(viejos)
            /\ \A k \in 1..Len(viejos) :
                /\ c.actualizados[k].imei = viejos[k].imei
                /\ c.actualizados[k].fecha_cliente = viejos[k].fecha_cliente
                /\ EntradaActualizada(c.actualizados[k], lookup)

\* A returned run listed as unchanged a record whose date is the stored day at
\* another time of day, and updated an active row for a None date.
C6_Witness ==
    /\ pc = "done"
    /\ result.success
    /\ \E k \in 1..Len(result.sin_cambios) :
        /\ result.sin_cambios[k].fecha_cliente = D1b
        /\ db_imeis_dict[result.sin_cambios[k].imei].fecha_cliente = D1a
    /\ \E k \in 1..Len(result.actualizados_list) :
        /\ result.actualizados_list[k].fecha_cliente = None
        /\ ~result.actualizados_list[k].estaba_inactivo

\* C7: the run computes the classification the analysis returned just before
\* it, when the rows were loaded and every write succeeded.
C7_SameClassification ==
    (CorridaLimpia /\ db_imeis_result.tipo = "list") =>
        /\ analisis.nuevos = result.nuevos_list
        /\ analisis.actualizados = result.actualizados_list
        /\ analisis.sin_cambios = result.sin_cambios

\* The writes the loaded lookup calls for: one per record that is new or
\* updated, one per stored identifier absent from the batch.
EscriturasEsperadas ==
    Len(DeClase(excel_data, db_imeis_dict, "new"))
    + Len(DeClase(excel_data, db_imeis_dict, "updated"))
    + Cardinality(DOMAIN db_imeis_dict \ ExcelImeis(excel_data))

\* C8: row-level failures do not abort the batch. A run whose table was
\* ensured returns success = true whatever writes failed; it has attempted
\* every write the batch and the obsolete set call for; each failed write is
\* one entry of errors and is not counted in nuevos / actualizados /
\* desactivados.
C8_RowFailures ==
    (pc = "done" /\ tabla_asegurada = "si") =>
        /\ result.success
        /\ sentencias = EscriturasEsperadas
        /\ Len(result.errors) = fallidas
        /\ result.nuevos + result.actualizados + result.desactivados + fallidas
             = sentencias

\* A run has returned in which the insert of one identifier failed and the
\* deactivation of another, attempted after it, was applied.
C8_Witness ==
    /\ pc = "done"
    /\ result.success
    /\ fallidas = 1
    /\ \E k \in 1..Len(result.errors) : result.errors[k].op = "insertar"
    /\ result.desactivados = 1
    /\ \E r \in tabla : ~r.activo /\ r.actualizado = reloj

\* C9: an up-front failure aborts the run. The loops start only once the
\* table is ensured; when it cannot be, the run returns success = false with
\* the error, every counter 0 and every list empty, no write sent, the table
\* as it was.
C9_UpFrontFailure ==
    /\ pc \in {"load", "nuevos", "existentes", "obsoletos"} => tabla_asegurada = "si"
    /\ (pc = "done" /\ tabla_asegurada = "no") =>
        /\ ~result.success
        /\ result = [ResultInicial(excel_data) EXCEPT !.errors = <<Error("tabla", "")>>]
        /\ sentencias = 0
        /\ tabla = tablaInicio

\* A run has returned on a table check that failed, over a table with rows.
C9_Witness ==
    /\ pc = "done"
    /\ tabla_asegurada = "no"
    /\ tabla # {}
    /\ result.total = 2

\* C10: a failed load is an explicit failure. When the SELECT of all rows
\* answers None after the table was ensured, the run returns success = false
\* with an error.
C10_LoadFailure ==
    (pc = "done" /\ tabla_asegurada = "si" /\ db_imeis_result = RespNone) =>
        /\ ~result.success
        /\ result.errors # <<>>

\* ------------------------------------------------------------ concurrent runs
\* The identifiers of the rows that are active.
Activos(t) == {r.imei_serie : r \in {r2 \in t : r2.activo}}

\* Run p has returned with success and no error, its lookup loaded.
ConcLimpia(p) ==
    /\ procesos[p].pc = "done"
    /\ procesos[p].result.success
    /\ procesos[p].result.errors = <<>>
    /\ procesos[p].cargada

\* C11: lost-update race. What either serial order of two runs leaves is
\* fixed by the run that comes second: when a run loads its lookup after the
\* other has returned, the active rows it leaves are the identifiers of its
\* batch. (Two overlapping runs can leave a table that is the result of
\* neither order: C11_Race.)
C11_SerialOrder ==
    \A p \in Procs, q \in Procs :
        (p # q /\ ConcLimpia(q) /\ p \in procesos[q].tras) =>
            Activos(tabla) = ExcelImeis(procesos[q].excel_data)

\* Two runs with different batches have both returned, every statement of
\* both accepted, and the active rows are the batch of neither: the table is
\* what no serial order of the two leaves.
C11_Race ==
    /\ \A p \in Procs : ConcLimpia(p)
    /\ ExcelImeis(procesos[1].excel_data) # ExcelImeis(procesos[2].excel_data)
    /\ \A p \in Procs : Activos(tabla) # ExcelImeis(procesos[p].excel_data)

\* ------------------------------------------------------------ rows and counts
\* C12: identifier uniqueness. The table never holds two rows with the same
\* identifier; of the records of a batch that name one identifier absent from
\* the lookup, at most one is inserted and every other one is an entry of
\* errors.
C12_Uniqueness ==
    /\ \A r1 \in tabla, r2 \in tabla :
          r1.imei_serie = r2.imei_serie => r1 = r2
    /\ (pc = "done" /\ result.success) =>
          \A x \in IMEIS :
             /\ CuentaImei(result.nuevos_list, x) <= 1
             /\ x \notin DOMAIN db_imeis_dict =>
                   CuentaError("insertar", x) >= CuentaImei(excel_data, x) - 1

\* A run has returned whose batch named a new identifier twice, with two
\* dates: one row holds it, the other insert is in errors.
C12_Witness ==
    /\ pc = "done"
    /\ result.success
    /\ Len(excel_data) = 2
    /\ excel_data[1].imei = excel_data[2].imei
    /\ excel_data[1].fecha_cliente # excel_data[2].fecha_cliente
    /\ result.nuevos = 1
    /\ result.errors = <<Error("insertar", excel_data[2].imei)>>
    /\ Cardinality({r \in tabla : r.imei_serie = excel_data[1].imei}) = 1

\* The batch is a part of what the table held when the run was entered: one
\* record per identifier, each with the date of an active row.
SubLote(datos, t) ==
    /\ SinDuplicados(datos)
    /\ \A r \in t : r.activo
    /\ \A k \in 1..Len(datos) :
          \E r \in t : /\ r.imei_serie = datos[k].imei
                       /\ r.fecha_cliente = datos[k].fecha_cliente

\* C13: end-to-end counts. After a run in which every write succeeded,
\* nuevos = |extracted - persisted| and desactivados = |persisted -
\* extracted|; from an empty table a batch of n distinct identifiers gives
\* n / 0 / 0 and n active rows; a batch that keeps part of the stored rows
\* with their dates and drops k gives 0 / 0 / k and lists the kept ones
\* unchanged.
C13_Counts ==
    CorridaLimpia =>
        LET persisted == ImeisTabla(tablaInicio)
            extracted == ExcelImeis(excel_data)
        IN  /\ result.nuevos = Cardinality(extracted \ persisted)
            /\ result.desactivados = Cardinality(persisted \ extracted)
            /\ (tablaInicio = {} /\ SinDuplicados(excel_data)) =>
                  /\ result.nuevos = Len(excel_data)
                  /\ result.actualizados = 0
                  /\ result.desactivados = 0
                  /\ Activos(tabla) = extracted
                  /\ Cardinality(tabla) = Len(excel_data)
            /\ SubLote(excel_data, tablaInicio) =>
                  /\ result.nuevos = 0
                  /\ result.actualizados = 0
                  /\ result.desactivados = Cardinality(tablaInicio) - Len(excel_data)
                  /\ result.sin_cambios = excel_data

\* C14: the count invariant of the result. At every point of a run, and in
\* what it returns, nuevos + actualizados + len(sin_cambios) <= total, total
\* being the number of records of the batch; desactivados counts, once each,
\* identifiers that have a row in the table and are absent from the batch.
C14_CountInvariant ==
    pc # "idle" =>
        /\ result.total = Len(excel_data)
        /\ result.nuevos + result.actualizados + Len(result.sin_cambios)
             <= result.total
        /\ result.desactivados = Len(result.desactivados_list)
        /\ \A k \in 1..Len(result.desactivados_list) :
              /\ result.desactivados_list[k].imei \in ImeisTabla(tabla)
              /\ result.desactivados_list[k].imei \in ImeisTabla(tablaInicio)
              /\ result.desactivados_list[k].imei \notin ExcelImeis(excel_data)
              /\ CuentaImei(result.desactivados_list,
                            result.desactivados_list[k].imei) = 1

\* A run has returned that deactivated one identifier and left a record of
\* its batch out of the three counts (its insert was rejected).
C14_Witness ==
    /\ pc = "done"
    /\ result.success
    /\ result.desactivados = 1
    /\ result.nuevos = 1
    /\ result.nuevos + result.actualizados + Len(result.sin_cambios) < result.total

\* Identifier x has an active row in t and every record of the batch that
\* names it carries the calendar day of that row (or None for None).
SinCambioEn(x, datos, t) ==
    /\ x \in ExcelImeis(datos)
    /\ \E r \in t :
          /\ r.imei_serie = x
          /\ r.activo
          /\ \A k \in 1..Len(datos) :
                datos[k].imei = x =>
                   ~ReglaFechaCambiada(datos[k].fecha_cliente, r.fecha_cliente)

\* C15: frame of an unchanged row. For an identifier with an active row and
\* the same date as in the batch, a run that got past the table check sends
\* no write (the identifier is in no list of writes and in no error), lists
\* its records in sin_cambios, and leaves the row as it was.
C15_UnchangedFrame ==
    (pc = "done" /\ tabla_asegurada = "si") =>
        \A x \in IMEIS :
            SinCambioEn(x, excel_data, tablaInicio) =>
                /\ Fila(tabla, x) = Fila(tablaInicio, x)
                /\ CuentaImei(result.sin_cambios, x) = CuentaImei(excel_data, x)
                /\ CuentaImei(result.nuevos_list, x) = 0
                /\ CuentaImei(result.actualizados_list, x) = 0
                /\ CuentaImei(result.desactivados_list, x) = 0
                /\ \A k \in 1..Len(result.errors) : result.errors[k].imei # x

\* C16: frame of a deactivation. A step of a run whose batch does not name
\* the identifier of a row leaves that row in the table with its identifier,
\* date, creation time and detail; if the step changes the row at all, it
\* changes activo to false and actualizado, nothing else.
C16_DeactivationFrame ==
    [][\A r \in tabla :
         r.imei_serie \notin ExcelImeis(excel_data') =>
            \E r2 \in tabla' :
               /\ r2.imei_serie = r.imei_serie
               /\ r2.fecha_cliente = r.fecha_cliente
               /\ r2.creado = r.creado
               /\ r2.detalle = r.detalle
               /\ r2 # r => ~r2.activo]_vars

\* A row found before the first run was marked inactive by the first run and
\* again by the second, absent from both batches; it keeps its date, creation
\* time and detail.
C16_Witness ==
    /\ pc = "done"
    /\ corridas = 2
    /\ \E r \in tabla, r0 \in tablaInicio :
          /\ r.imei_serie = r0.imei_serie
          /\ r.imei_serie \notin ExcelImeis(excel_data)
          /\ ~r0.activo /\ r0.actualizado = 1
          /\ ~r.activo /\ r.actualizado = 2
          /\ r.creado = 0
          /\ r.detalle = DetallePrevio
          /\ r.fecha_cliente = r0.fecha_cliente

\* The date of the last entry of `lista` that names identifier x.
UltimaFecha(lista, x) ==
    lista[CHOOSE k \in 1..Len(lista) :
            /\ lista[k].imei = x
            /\ \A j \in (k + 1)..Len(lista) : lista[j].imei # x].fecha_cliente

\* C17: reactivation. For an identifier that had an inactive row when the run
\* was entered and is named by the batch, a run that got past the table check
\* classifies every record of it updated with estaba_inactivo = true (each is
\* in actualizados_list, or in errors as a failed update), whatever the date;
\* once an update was applied the same row (same creation time, no second
\* row) is active with the date written last.
C17_Reactivation ==
    (pc = "done" /\ tabla_asegurada = "si") =>
        \A x \in ExcelImeis(excel_data) :
            \A r0 \in tablaInicio :
                (r0.imei_serie = x /\ ~r0.activo) =>
                    /\ CuentaImei(result.actualizados_list, x)
                         + CuentaError("actualizar", x) = CuentaImei(excel_data, x)
                    /\ \A k \in 1..Len(result.actualizados_list) :
                          result.actualizados_list[k].imei = x =>
                             result.actualizados_list[k].estaba_inactivo
                    /\ Cardinality({r \in tabla : r.imei_serie = x}) = 1
                    /\ CuentaImei(result.actualizados_list, x) > 0 =>
                          /\ Fila(tabla, x).activo
                          /\ Fila(tabla, x).creado = r0.creado
                          /\ Fila(tabla, x).fecha_cliente
                               = UltimaFecha(result.actualizados_list, x)

\* ------------------------------------------------------------ limpiar_duplicados
\* The identifier of record k of the list passed in, trimmed.
Clave(k) == Strip(StrDe(registros[k][1]))

\* Record k has an identifier that is neither None nor blank.
ConImei(k) == registros[k][1] # PyNone /\ Clave(k) # <<>>

\* The records that are the first of their identifier.
Primeras ==
    {k \in 1..Len(registros) :
        /\ ConImei(k)
        /\ \A j \in 1..(k - 1) : ConImei(j) => Clave(j) # Clave(k)}

\* The records that repeat an identifier seen before them.
Repetidas == {k \in 1..Len(registros) : ConImei(k)} \ Primeras

\* The n-th smallest index of the set S.
Enesimo(S, n) == CHOOSE k \in S : Cardinality({j \in S : j <= k}) = n

\* C18: uniqueness and order of the clean list. limpiar_duplicados returns,
\* for every list, one tuple per identifier: the first record of each
\* trimmed, non-blank identifier, in input order, with the date of that
\* record; no identifier of the clean list is blank, padded or repeated.
C18_CleanList ==
    limpieza.hecho =>
        /\ Len(limpieza.limpios) = Cardinality(Primeras)
        /\ \A n \in 1..Len(limpieza.limpios) :
              /\ limpieza.limpios[n] =
                    <<Clave(Enesimo(Primeras, n)),
                      registros[Enesimo(Primeras, n)][2]>>
              /\ limpieza.limpios[n][1] # <<>>
              /\ Head(limpieza.limpios[n][1]) # " "
              /\ limpieza.limpios[n][1][Len(limpieza.limpios[n][1])] # " "
              /\ \A m \in 1..Len(limpieza.limpios) :
                    limpieza.limpios[m][1] = limpieza.limpios[n][1] => m = n

\* [(" A", d1), ("A", d2), ("B", d3)] with d1 # d2 was cleaned to
\* [("A", d1), ("B", d3)].
C18_Witness ==
    /\ limpieza.hecho
    /\ Len(registros) = 3
    /\ registros[1][1] = PyStr(<<" ", "A">>)
    /\ registros[2][1] = PyStr(<<"A">>)
    /\ registros[3][1] = PyStr(<<"B">>)
    /\ registros[1][2] # registros[2][2]
    /\ limpieza.limpios = <<<<(<<"A">>), registros[1][2]>>,
                            <<(<<"B">>), registros[3][2]>>>>

\* C19: accounting of the duplicate report. The report has one entry per
\* record that repeats an identifier, in input order, with the trimmed
\* identifier, the date of that record and ocurrencia = k for the k-th record
\* of the identifier (k >= 2); records with a None or blank identifier are in
\* neither output: len(clean) + len(report) is the number of records with an
\* identifier.
C19_DuplicateReport ==
    limpieza.hecho =>
        /\ Len(limpieza.duplicados) = Cardinality(Repetidas)
        /\ \A n \in 1..Len(limpieza.duplicados) :
              LET k == Enesimo(Repetidas, n)
                  e == limpieza.duplicados[n]
              IN  /\ e.imei_serie = Clave(k)
                  /\ e.fecha = registros[k][2]
                  /\ e.ocurrencia =
                        Cardinality({j \in 1..k : ConImei(j) /\ Clave(j) = Clave(k)})
                  /\ e.ocurrencia >= 2
        /\ Len(limpieza.limpios) + Len(limpieza.duplicados)
             = Cardinality({k \in 1..Len(registros) : ConImei(k)})

\* Three records of one identifier, padded differently, gave a report of two
\* entries: the second and the third occurrence.
C19_Witness ==
    /\ limpieza.hecho
    /\ Len(registros) = 3
    /\ registros[1][1] = PyStr(<<"A">>)
    /\ registros[2][1] = PyStr(<<" ", "A">>)
    /\ registros[3][1] = PyStr(<<"A", " ">>)
    /\ Len(limpieza.duplicados) = 2
    /\ limpieza.duplicados[1].ocurrencia = 2
    /\ limpieza.duplicados[2].ocurrencia = 3

\* ------------------------------------------------------------ date parsing
\* The cell is a text a/b/YYYY whose first number can be a month.
TextoMesPrimero ==
    /\ valor.tipo = "str"
    /\ valor.forma = "barras"
    /\ valor.a <= 12

\* A parser read the cell month first: a is the month, b the day.
LeidaMesPrimero(fecha) ==
    fecha.tipo = "datetime" => (fecha.mes = valor.a /\ fecha.dia = valor.b)

\* C20: month-first date policy. A text a/b/YYYY whose first number can be a
\* month is read with a as the month, by parsear_fecha and by the date
\* parsing of extract_all_imeis_from_excel, whenever they read it at all.
C20_MonthFirst ==
    TextoMesPrimero =>
        /\ LeidaMesPrimero(fecha_trustonic)
        /\ LeidaMesPrimero(fecha_extraida)

\* ------------------------------------------------------------ no rollback
\* The row of identifier x in the table carries what write `op` of the
\* running cycle left there.
FilaEscrita(op, x, fecha) ==
    \E r \in tabla :
        /\ r.imei_serie = x
        /\ r.actualizado = reloj
        /\ CASE op = "insertar" ->
                  /\ r.fecha_cliente = fecha
                  /\ r.creado = reloj
                  /\ r.activo
                  /\ r.detalle = DetalleSync
             [] op = "actualizar" ->
                  /\ r.fecha_cliente = fecha
                  /\ r.activo
                  /\ r.detalle = DetalleSync
             [] OTHER -> ~r.activo

\* C21: no rollback of applied rows. At every point of a run of sync_imeis,
\* also after a later write failed and after the run returned, every write
\* the run applied so far is in the table exactly as written: the inserted
\* row with its date, both timestamps of the run, active; the updated row
\* active with the date written last; the deactivated row inactive.
C21_NoRollback ==
    /\ \A k \in 1..Len(result.nuevos_list) :
          FilaEscrita("insertar", result.nuevos_list[k].imei,
                      result.nuevos_list[k].fecha_cliente)
    /\ \A k \in 1..Len(result.actualizados_list) :
          FilaEscrita("actualizar", result.actualizados_list[k].imei,
                      UltimaFecha(result.actualizados_list,
                                  result.actualizados_list[k].imei))
    /\ \A k \in 1..Len(result.desactivados_list) :
          FilaEscrita("desactivar", result.desactivados_list[k].imei, None)

\* A run whose insert was applied and whose later update or deactivation
\* failed has returned.
C21_Witness ==
    /\ pc = "done"
    /\ result.nuevos_list # <<>>
    /\ \E k \in 1..Len(result.errors) :
          result.errors[k].op \in {"actualizar", "desactivar"}
    /\ C21_NoRollback

\* ------------------------------------------------------------ cancellation
\* C22: cooperative cancellation. Once stop_monitoring_event is set, the
\* running cycle sends no further INSERT or UPDATE to the store.
C22_NoWriteAfterStop ==
    [][stop_monitoring_event => sentencias' = sentencias]_vars

\* ------------------------------------------------------------ process_excel_files
\* How many entries of a list of file records name file `nombre` and
\* satisfy Cond.
CuentaArchivos(lista, nombre, Cond(_)) ==
    Cardinality({k \in 1..Len(lista) : lista[k].file = nombre /\ Cond(lista[k])})

\* How many files passed in have that name and one of those kinds.
CuentaEntradas(nombre, tipos) ==
    Cardinality({k \in 1..Len(excel_files) :
                    excel_files[k].nombre = nombre /\ excel_files[k].tipo \in tipos})

C24_OneRun == hilos_proceso <= 1

\* C25: a profile is executed automatically at most once per calendar day,
\* for every sequence of timer checks, edits and saves.
C25_OncePerDay == \A k \in 1..Len(profiles) : auto_hoy[k] <= 1

\* C30: no starved scheduled profile. No day ends with an enabled profile
\* whose scheduled minute a timer check observed and for which no processing
\* thread was started, and a profile marked as run today (last_run) had its
\* thread started today.
C30_NoStarvation ==
    /\ desatendidos = {}
    /\ \A k \in 1..Len(profiles) :
          YaEjecutadoHoy(profiles[k], now) => auto_hoy[k] > 0

\* ------------------------------------------------------------ monitoring switch
\* Monitoring threads alive.
HilosVivos == hilos_sueltos + (IF monitoring_thread = "vivo" THEN 1 ELSE 0)

\* C26: single monitoring thread. Every step leaves at most one monitoring
\* thread alive and at most one monitoring job pending, and none pending
\* with monitoring switched off; a step that starts a thread is taken with
\* monitoring switched on and with the thread before not alive.
C26_SingleThread ==
    [][/\ HilosVivos' <= 1
       /\ Cardinality(temporizadores') <= 1
       /\ ~monitoring_active' => temporizadores' = {}
       /\ hilos_sueltos' = hilos_sueltos
       /\ (monitoring_thread' = "vivo" /\ monitoring_thread # "vivo")
             => monitoring_active']_vars

\* Monitoring is on after a second job was scheduled (a timer firing, or a
\* stop and a new start) with the thread still alive: one thread, one job.
C26_Witness ==
    /\ monitoring_active
    /\ monitoring_thread = "vivo"
    /\ jobs_creados >= 2
    /\ temporizadores = {jobs_creados}
    /\ hilos_sueltos = 0

\* The notifications sent for email k to one recipient.
NotificacionesDe(k, u) == {n \in enviados : n.correo = k /\ n.para = u}

\* C27: per-email notification. Once monitor_and_notify is over, every
\* matching email is flagged as read and every configured recipient got
\* exactly one notification for it, an email without Excel included; a
\* notification carries no analysis counts and no attachment of another
\* email, and it carries the text summary when that email produced one and
\* no report.
C27_PerEmailNotification ==
    /\ pc_notif \in {"done", "error"} =>
           \A k \in 1..Len(correos) :
               /\ k \in leidos
               /\ \A u \in NotifyEmails :
                      Cardinality(NotificacionesDe(k, u)) = 1
    /\ \A n \in enviados :
           /\ n.cuentas_de \in {0, n.correo}
           /\ n.adjunto # None => n.adjunto.de = n.correo
           /\ (correos[n.correo].excel /\ correos[n.correo].extraccion_ok
                  /\ correos[n.correo].con_filas) => n.adjunto # None

\* C28: the analysis succeeds against the repository's connector. Right
\* after analizar_cambios_bd ran on a non-empty batch with the table in
\* place and the SELECT not failing for the connection, it returned
\* success with the classification of the batch against the rows stored.
C28_AnalysisSucceeds ==
    (pc = "ensure" /\ tablaExiste /\ excel_data # <<>>) =>
        /\ analisis.success
        /\ analisis.total = Len(excel_data)
        /\ Len(analisis.nuevos) + Len(analisis.actualizados)
              + Len(analisis.sin_cambios) = Len(excel_data)

\* The identifiers sync_imeis found stored and absent from the batch.
Obsoletos == DOMAIN db_imeis_dict \ ExcelImeis(excel_data)

\* C29: result accounting in sync_imeis. In every result the counters are
\* the lengths of their lists; when the run reached its end, each record of
\* the batch is in exactly one of nuevos_list, actualizados_list,
\* sin_cambios and the insert or update errors, and each obsolete
\* identifier is once in desactivados_list or in the deactivation errors,
\* which name no other identifier.
C29_ResultAccounting ==
    /\ result.nuevos = Len(result.nuevos_list)
    /\ result.actualizados = Len(result.actualizados_list)
    /\ result.desactivados = Len(result.desactivados_list)
    /\ (pc = "done" /\ result.success) =>
        \A x \in IMEIS :
            /\ CuentaImei(result.nuevos_list, x)
                 + CuentaImei(result.actualizados_list, x)
                 + CuentaImei(result.sin_cambios, x)
                 + CuentaError("insertar", x) + CuentaError("actualizar", x)
                 = CuentaImei(excel_data, x)
            /\ CuentaImei(result.desactivados_list, x)
                 + CuentaError("desactivar", x)
                 = IF x \in Obsoletos THEN 1 ELSE 0

\* A run reached its end with a two-record batch of which one write failed,
\* and with an obsolete identifier whose deactivation it listed or failed.
C29_Witness ==
    /\ pc = "done"
    /\ result.success
    /\ Len(excel_data) = 2
    /\ CuentaError("insertar", excel_data[1].imei)
         + CuentaError("actualizar", excel_data[1].imei) > 0
    /\ Len(result.nuevos_list) + Len(result.actualizados_list)
         + Len(result.sin_cambios) > 0
    /\ Obsoletos # {}


====
